---------------------------- MODULE Spec2Model ----------------------------
(***************************************************************************)
(* A model of the zynbudget application: the user account (premium status, *)
(* profile-completion score), the derived fields of the fund balance       *)
(* snapshots, and the (fund, date) uniqueness of the balance tables.       *)
(*                                                                         *)
(* Each area has its own specification over the shared variables:          *)
(*   SpecPremium   the clock, the admin's writes to the premium fields and *)
(*                 reads of User.is_premium_active                         *)
(*   SpecProfile   the profile operations and the completion score         *)
(*   SpecManaged   ManagedFundBalance.total_return(_percentage)            *)
(*   SpecRSA       RSABalance.total_contributions                          *)
(*   SpecSnapshot  inserts, updates and deletes of balance rows            *)
(*   SpecWriters   two admin sessions adding balance rows concurrently     *)
(***************************************************************************)
EXTENDS Integers, Sequences, FiniteSets, Bags

VARIABLES
    now,                \* wall clock, django.utils.timezone.now()
    user,               \* the row of the users table the requests act on
    premium_shown,      \* last value read of User.is_premium_active
    profile_completion, \* context['profile_completion'] of the last profile page
    mf_balance,         \* a ManagedFundBalance row being displayed
    mf_display,         \* its derived fields as last evaluated
    rsa_balance,        \* an RSABalance row being displayed
    rsa_display,        \* its derived field as last evaluated
    balances,           \* the rsa_balances and managed_fund_balances tables
    outcome,            \* what the last write to a balance table did
    writer,             \* the admin sessions adding balance rows
    db                  \* the other tables of the database, by db_table

vars == <<now, user, premium_shown, profile_completion, mf_balance, mf_display,
          rsa_balance, rsa_display, balances, outcome, writer, db>>

-----------------------------------------------------------------------------
(* Bounds of the model.                                                    *)

MaxTime == 3        \* clock values and expiry timestamps range over 0..MaxTime
MaxCents == 2       \* stored amounts range over -MaxCents..MaxCents cents (and the examples)
MaxFund == 2        \* specialization ids 1..MaxFund
MaxDate == 2        \* balance dates 1..MaxDate
MaxRows == 2        \* rows held by the two balance tables together
MaxKeys == 3        \* token keys generated in one behaviour
MaxFiles == 3       \* files held by the media storage

-----------------------------------------------------------------------------
(* Python values.  None is the empty tuple and a set value v is <<v>>, so   *)
(* that a nullable column of any type compares with None.                  *)

None == <<>>
Some(v) == <<v>>
Val(o) == o[1]

Abs(n) == IF n < 0 THEN -n ELSE n
Min(a, b) == IF a <= b THEN a ELSE b
Max(a, b) == IF a >= b THEN a ELSE b
Xor(a, b) == IF a = b THEN 0 ELSE 1

RECURSIVE Pow10(_)
Pow10(n) == IF n <= 0 THEN 1 ELSE 10 * Pow10(n - 1)


-----------------------------------------------------------------------------
(* decimal.Decimal.  A value is what Decimal.as_tuple() gives: the sign    *)
(* (0 or 1), the coefficient's digits, most significant first, and the     *)
(* exponent.  Arithmetic is that of the default context: precision Prec,   *)
(* ROUND_HALF_EVEN, division by zero trapped.                              *)

Prec == 28

RECURSIVE Digits(_)
Digits(n) == IF n < 10 THEN <<n>> ELSE Append(Digits(n \div 10), n % 10)

RECURSIVE IntOf(_)
IntOf(ds) == IF ds = <<>> THEN 0
             ELSE 10 * IntOf(SubSeq(ds, 1, Len(ds) - 1)) + ds[Len(ds)]

IsZeroDec(d) == \A i \in 1..Len(d.digits) : d.digits[i] = 0

\* A DecimalField(decimal_places=2) column holding c cents, as the ORM loads it.
FromCents(c) == [sign |-> IF c < 0 THEN 1 ELSE 0, digits |-> Digits(Abs(c)), exp |-> -2]

\* The coefficient plus one, with the carry.
RECURSIVE IncDigits(_)
IncDigits(ds) ==
    IF ds = <<>> THEN <<1>>
    ELSE IF ds[Len(ds)] < 9 THEN [ds EXCEPT ![Len(ds)] = @ + 1]
    ELSE Append(IncDigits(SubSeq(ds, 1, Len(ds) - 1)), 0)

\* Decimal._fix: a coefficient longer than Prec digits is rounded half-even to
\* Prec digits and the exponent raised by the number of digits dropped.
DecFix(d) ==
    IF Len(d.digits) <= Prec THEN d
    ELSE LET keep == SubSeq(d.digits, 1, Prec)
             drop == SubSeq(d.digits, Prec + 1, Len(d.digits))
             rest == \E i \in 2..Len(drop) : drop[i] # 0
             up   == \/ drop[1] > 5
                     \/ drop[1] = 5 /\ rest
                     \/ drop[1] = 5 /\ ~rest /\ keep[Prec] % 2 = 1
             inc  == IncDigits(keep)
             e    == d.exp + Len(drop)
         IN IF ~up THEN [sign |-> d.sign, digits |-> keep, exp |-> e]
            ELSE IF Len(inc) > Prec
                 THEN [sign |-> d.sign, digits |-> SubSeq(inc, 1, Prec), exp |-> e + 1]
                 ELSE [sign |-> d.sign, digits |-> inc, exp |-> e]

\* Decimal.__add__: the operands are brought to the smaller exponent and their
\* coefficients added or, with unlike signs, the smaller taken from the larger.
DecAdd(a, b) ==
    LET e  == Min(a.exp, b.exp)
        ia == IntOf(a.digits) * Pow10(a.exp - e)
        ib == IntOf(b.digits) * Pow10(b.exp - e)
    IN DecFix(
       IF a.sign = b.sign THEN [sign |-> a.sign, digits |-> Digits(ia + ib), exp |-> e]
       ELSE IF ia = ib THEN [sign |-> 0, digits |-> <<0>>, exp |-> e]
       ELSE IF ia > ib THEN [sign |-> a.sign, digits |-> Digits(ia - ib), exp |-> e]
       ELSE [sign |-> b.sign, digits |-> Digits(ib - ia), exp |-> e])

\* An exception leaving the evaluation, in place of its value.
Raise(e) == [raised |-> e]
Raised(v) == "raised" \in DOMAIN v

\* The digits of n / d after the point, for a remainder r < d: digit by digit
\* until the remainder is zero or the coefficient has Prec + 1 significant
\* digits.  ds is the coefficient so far (empty while only zeros came), k the
\* number of places produced.
RECURSIVE LongDiv(_, _, _, _)
LongDiv(ds, k, r, d) ==
    IF r = 0 \/ Len(ds) >= Prec + 1 THEN [digits |-> ds, places |-> k, rem |-> r]
    ELSE LET q == (10 * r) \div d
         IN LongDiv(IF ds = <<>> /\ q = 0 THEN ds ELSE Append(ds, q),
                    k + 1, (10 * r) % d, d)

\* Decimal.__truediv__: x / 0 raises DivisionByZero, 0 / 0 InvalidOperation;
\* 0 / y is zero with the ideal exponent; an exact quotient takes the exponent
\* nearest the ideal one; an inexact one gets a sticky last digit and is
\* rounded by _fix.
DecDiv(a, b) ==
    IF IsZeroDec(b)
    THEN Raise(IF IsZeroDec(a) THEN "InvalidOperation" ELSE "DivisionByZero")
    ELSE IF IsZeroDec(a)
         THEN [sign |-> Xor(a.sign, b.sign), digits |-> <<0>>, exp |-> a.exp - b.exp]
    ELSE LET n  == IntOf(a.digits)
             d  == IntOf(b.digits)
             ip == n \div d
             l  == LongDiv(IF ip = 0 THEN <<>> ELSE Digits(ip), 0, n % d, d)
             c  == l.digits
             st == IF l.rem # 0 /\ c[Len(c)] % 5 = 0
                   THEN [c EXCEPT ![Len(c)] = @ + 1] ELSE c
         IN DecFix([sign |-> Xor(a.sign, b.sign), digits |-> st,
                    exp |-> a.exp - b.exp - l.places])

\* Decimal.__mul__ by a non-negative int m (converted to Decimal(m), exponent
\* 0): the coefficients are multiplied and the exponents added.  The product
\* of the coefficients is formed on the digits, least significant first.
RECURSIVE MulDigits(_, _, _)
MulDigits(ds, m, carry) ==
    IF ds = <<>> THEN (IF carry = 0 THEN <<>> ELSE Digits(carry))
    ELSE LET p == ds[Len(ds)] * m + carry
         IN Append(MulDigits(SubSeq(ds, 1, Len(ds) - 1), m, p \div 10), p % 10)

DecMulInt(a, m) ==
    IF IsZeroDec(a) \/ m = 0 THEN [sign |-> a.sign, digits |-> <<0>>, exp |-> a.exp]
    ELSE DecFix([sign |-> a.sign, digits |-> MulDigits(a.digits, m, 0), exp |-> a.exp])


-----------------------------------------------------------------------------
(* budgets.ManagedFundBalance and budgets.RSABalance: the derived fields.  *)
(* A row holds its DecimalField(decimal_places=2) columns in cents.        *)

\* The mutant of total_return: the realized component left out.
total_return_unrealized_only(b) ==
    DecAdd(FromCents(b.unrealized_gain_loss), FromCents(b.total_dividends_received))

\* ManagedFundBalance.total_return
total_return(b) ==
    DecAdd(DecAdd(FromCents(b.unrealized_gain_loss), FromCents(b.realized_gain_loss)),
           FromCents(b.total_dividends_received))

\* The mutant of total_return_percentage: the division made whatever
\* total_invested is.
total_return_percentage_unguarded(b) ==
    LET q == DecDiv(total_return(b), FromCents(b.total_invested))
    IN IF Raised(q) THEN q ELSE DecMulInt(q, 100)

\* ManagedFundBalance.total_return_percentage
total_return_percentage(b) ==
    IF b.total_invested > 0
    THEN LET q == DecDiv(total_return(b), FromCents(b.total_invested))
         IN IF Raised(q) THEN q ELSE DecMulInt(q, 100)
    ELSE FromCents(0)

\* The mutant of total_contributions: the investment returns counted in.
total_contributions_with_returns(b) ==
    DecAdd(DecAdd(DecAdd(FromCents(b.total_employee_contributions),
                         FromCents(b.total_employer_contributions)),
                  FromCents(b.total_voluntary_contributions)),
           FromCents(b.investment_returns))

\* RSABalance.total_contributions
total_contributions(b) ==
    DecAdd(DecAdd(FromCents(b.total_employee_contributions),
                  FromCents(b.total_employer_contributions)),
           FromCents(b.total_voluntary_contributions))


-----------------------------------------------------------------------------
(* users.User.  The row carries the seven fields the completion score      *)
(* reads, the two preference fields the profile forms write with them, the *)
(* premium and verification fields and the password.  Nullable columns    *)
(* hold None or Some(value); a date is written as text.                    *)

Times == 0..MaxTime

Names == {"", "Ada"}
Emails == {"", "ada@example.com"}
Phones == {None, Some(""), Some("+1234567890")}
Pictures == {None, Some("profile_pictures/ada.png")}
BirthDates == {None, Some("1990-01-01")}
Bios == {"", "Saving for a house."}
Currencies == {"USD", "EUR"}
Timezones == {"UTC", "Europe/London"}

\* The column defaults of the model: a row as User() builds it.  No password
\* is set on it: the column is the empty string, which no raw password matches.
NewUser ==
    [first_name |-> "", last_name |-> "", email |-> "",
     phone_number |-> None, profile_picture |-> None,
     date_of_birth |-> None, bio |-> "",
     currency |-> "USD", timezone |-> "UTC",
     is_premium |-> FALSE, premium_expires_at |-> None,
     is_email_verified |-> FALSE, password |-> ""]

\* bool(str), and bool of a nullable column (None and '' are false; a
\* FieldFile is true when it has a name, a date always).
TruthyStr(v) == v # ""
TruthyOpt(o) == o # None /\ Val(o) # ""

\* The mutants of is_premium_active: the expiry instant counted as still
\* active, and the expiry not consulted at all.
is_premium_active_inclusive(u, t) ==
    IF ~u.is_premium THEN FALSE
    ELSE IF u.premium_expires_at = None THEN TRUE
    ELSE Val(u.premium_expires_at) >= t

is_premium_active_unexpiring(u, t) == u.is_premium

\* User.is_premium_active, evaluated when timezone.now() is t.
is_premium_active(u, t) ==
    IF ~u.is_premium THEN FALSE
    ELSE IF u.premium_expires_at = None THEN TRUE
    ELSE Val(u.premium_expires_at) > t

\* round((n / d) * 100, 2), in hundredths of a percent: the nearest hundredth,
\* a tie going to the even one.
PyRound2(n, d) ==
    LET q == (n * 10000) \div d
        r == (n * 10000) % d
    IN IF 2 * r > d \/ (2 * r = d /\ q % 2 = 1) THEN q + 1 ELSE q

\* The list `fields` of calculate_profile_completion, each entry as `if field`
\* sees it.
completion_fields(u) ==
    << TruthyStr(u.first_name),
       TruthyStr(u.last_name),
       TruthyStr(u.email),
       TruthyOpt(u.phone_number),
       TruthyOpt(u.profile_picture),
       TruthyOpt(u.date_of_birth),
       TruthyStr(u.bio) >>

\* The mutants of calculate_profile_completion: the percentage cut to two
\* places instead of rounded, and the empty fields counted instead of the
\* filled ones.
calculate_profile_completion_truncated(u) ==
    LET fields == completion_fields(u)
        filled_fields == Cardinality({i \in 1..Len(fields) : fields[i]})
    IN (filled_fields * 10000) \div Len(fields)

calculate_profile_completion_inverted(u) ==
    LET fields == completion_fields(u)
        filled_fields == Cardinality({i \in 1..Len(fields) : ~fields[i]})
    IN PyRound2(filled_fields, Len(fields))

\* UserProfileTemplateView.calculate_profile_completion, in hundredths of a
\* percent (42.86 is 4286).
calculate_profile_completion(u) ==
    LET fields == completion_fields(u)
        filled_fields == Cardinality({i \in 1..Len(fields) : fields[i]})
        total_fields == Len(fields)
    IN PyRound2(filled_fields, total_fields)


-----------------------------------------------------------------------------
(* budgets.RSABalance and budgets.ManagedFundBalance: the tables.  A table *)
(* is the bag of its rows (the primary key left out); a row carries the    *)
(* specialization it belongs to, its date and one of its amounts.          *)

BalanceTables == {"rsa_balances", "managed_fund_balances"}
Funds == 1..MaxFund
Dates == 1..MaxDate
MarketValues == {0, 100}
BalanceRows == [fund : Funds, balance_date : Dates, market_value : MarketValues]

\* The mutant of unique_together: the constraint declared on the wrong column.
unique_together_misdeclared == {"fund", "market_value"}

\* Meta.unique_together of both models: ['rsa_fund', 'balance_date'] and
\* ['managed_fund', 'balance_date'].
unique_together == {"fund", "balance_date"}

\* The rows of table b other than the one being updated (None on an insert).
OtherRows(b, old) ==
    BagToSet(IF old = None THEN b ELSE b (-) SetToBag({Val(old)}))

\* The mutants of the database constraint: checked on INSERT only, and not
\* created at all.
unique_constraint_violated_on_insert(b, r, old) ==
    /\ old = None
    /\ \E x \in OtherRows(b, old) : \A c \in unique_together : x[c] = r[c]

unique_constraint_absent(b, r, old) == FALSE

\* The UNIQUE constraint the migration creates from unique_together: writing r
\* (in place of old, on an update) would give two rows equal on those columns.
unique_constraint_violated(b, r, old) ==
    \E x \in OtherRows(b, old) : \A c \in unique_together : x[c] = r[c]

\* Model.validate_unique, which a ModelForm runs in is_valid(): the same
\* condition, looked up with a query before anything is written.
validate_unique_fails(b, r, old) ==
    \E x \in OtherRows(b, old) : \A c \in unique_together : x[c] = r[c]

RowCount == BagCardinality(balances["rsa_balances"])
              + BagCardinality(balances["managed_fund_balances"])

Insert(t, r) == [balances EXCEPT ![t] = @ (+) SetToBag({r})]
Replace(t, old, r) == [balances EXCEPT ![t] = (@ (-) SetToBag({old})) (+) SetToBag({r})]
Remove(t, old) == [balances EXCEPT ![t] = @ (-) SetToBag({old})]

-----------------------------------------------------------------------------
(* The variables a specification leaves alone keep these values.           *)

accountVars == <<now, user, premium_shown, profile_completion>>
managedVars == <<mf_balance, mf_display>>
rsaVars == <<rsa_balance, rsa_display>>
storeVars == <<balances, outcome, writer>>
catalogVars == <<db>>

NoAccount ==
    /\ now = 0
    /\ user = NewUser
    /\ premium_shown = None
    /\ profile_completion = None

NoManaged == mf_balance = None /\ mf_display = None

NoRSA == rsa_balance = None /\ rsa_display = None

NoStore ==
    /\ balances = [t \in BalanceTables |-> EmptyBag]
    /\ outcome = "none"
    /\ writer = <<>>

\* The tables of users and budgets other than the balance tables, all empty,
\* with the token table of the API, the number of token keys generated so
\* far and the files in the media storage.
\* A table whose rows are told apart by their primary key is a function from
\* the keys in use; a table whose rows are told apart only by their columns is
\* a bag.
EmptyDb ==
    [users                     |-> <<>>,
     accounts                  |-> {},
     fund_types                |-> <<>>,
     fund_managers             |-> <<>>,
     funds                     |-> <<>>,
     rsa_funds                 |-> {},
     managed_funds             |-> {},
     rsa_contributions         |-> <<>>,
     managed_fund_transactions |-> <<>>,
     fund_performance          |-> EmptyBag,
     fund_data_uploads         |-> <<>>,
     authtoken_token           |-> {},
     keys_generated            |-> 0,
     media                     |-> {}]

NoCatalog == db = EmptyDb

-----------------------------------------------------------------------------
(* SpecPremium: the premium fields are written in the admin (UserAdmin's   *)
(* "Premium Status" fieldset), time passes, and is_premium_active is read  *)
(* (UserSerializer's read-only field, the admin's premium badge).          *)

\* Time passes.
Tick ==
    /\ now < MaxTime
    /\ now' = now + 1
    /\ UNCHANGED <<user, premium_shown, profile_completion>>
    /\ UNCHANGED <<managedVars, rsaVars, storeVars, catalogVars>>

\* The admin saves the account with the given premium fields.
AdminSetPremium(flag, expiry) ==
    /\ user' = [user EXCEPT !.is_premium = flag, !.premium_expires_at = expiry]
    /\ UNCHANGED <<now, premium_shown, profile_completion>>
    /\ UNCHANGED <<managedVars, rsaVars, storeVars, catalogVars>>

\* A read of user.is_premium_active; the value goes out with the time it was
\* computed at.
ReadPremiumActive ==
    /\ premium_shown' = Some([at |-> now, value |-> is_premium_active(user, now)])
    /\ UNCHANGED <<now, user, profile_completion>>
    /\ UNCHANGED <<managedVars, rsaVars, storeVars, catalogVars>>

-----------------------------------------------------------------------------
(* SpecProfile: the operations on the account's profile and the profile    *)
(* page, which shows the completion score.                                 *)

\* UserProfileTemplateView.get_context_data
ViewProfile ==
    /\ profile_completion' = Some(calculate_profile_completion(user))
    /\ UNCHANGED <<now, user, premium_shown>>
    /\ UNCHANGED <<managedVars, rsaVars, storeVars, catalogVars>>

\* UserProfileEditView with a valid UserProfileForm: the form's eight fields
\* are saved.  The form requires an email; an empty phone number is cleaned
\* to None.
EditProfile(f) ==
    /\ f.email # ""
    /\ f.phone_number # Some("")
    /\ user' = [user EXCEPT !.first_name = f.first_name,
                            !.last_name = f.last_name,
                            !.email = f.email,
                            !.phone_number = f.phone_number,
                            !.currency = f.currency,
                            !.timezone = f.timezone,
                            !.date_of_birth = f.date_of_birth,
                            !.bio = f.bio]
    /\ UNCHANGED <<now, premium_shown, profile_completion>>
    /\ UNCHANGED <<managedVars, rsaVars, storeVars, catalogVars>>

\* UserProfileViewSet.update (PUT and PATCH) with valid data: the fields of
\* UserProfileSerializer present in the request are saved, the others kept.
\* None of the seven is required, and a blank phone number is accepted.
ApiUpdateProfile(data) ==
    /\ user' = [k \in DOMAIN user |-> IF k \in DOMAIN data THEN data[k] ELSE user[k]]
    /\ UNCHANGED <<now, premium_shown, profile_completion>>
    /\ UNCHANGED <<managedVars, rsaVars, storeVars, catalogVars>>

\* UserProfileViewSet.upload_picture with a file in the request, up to
\* user.profile_picture.delete(): the picture the account has is deleted and
\* the row saved with the column cleared (FieldFile.delete, save=True).  The
\* request then holds the row as it has it in memory, and the file.
ApiUploadPicture(file) ==
    /\ writer = None
    /\ LET row == IF TruthyOpt(user.profile_picture)
                  THEN [user EXCEPT !.profile_picture = None]
                  ELSE user
       IN /\ user' = row
          /\ writer' = Some([view |-> "upload", row |-> row, file |-> file])
    /\ UNCHANGED <<now, premium_shown, profile_completion, balances, outcome>>
    /\ UNCHANGED <<managedVars, rsaVars, catalogVars>>

\* UserProfileViewSet.upload_picture from user.profile_picture = ... on:
\* user.save() writes every column of the row the request holds, the
\* picture's among them.
ApiUploadPictureCommit ==
    /\ writer # None
    /\ Val(writer).view = "upload"
    /\ user' = [Val(writer).row EXCEPT !.profile_picture = Some(Val(writer).file)]
    /\ writer' = None
    /\ UNCHANGED <<now, premium_shown, profile_completion, balances, outcome>>
    /\ UNCHANGED <<managedVars, rsaVars, catalogVars>>

\* UserProfileViewSet.delete_picture: with no picture the request is
\* answered 400 and nothing is written.
ApiDeletePicture ==
    /\ user' = IF TruthyOpt(user.profile_picture)
               THEN [user EXCEPT !.profile_picture = None]
               ELSE user
    /\ UNCHANGED <<now, premium_shown, profile_completion>>
    /\ UNCHANGED <<managedVars, rsaVars, storeVars, catalogVars>>

\* What a profile form can carry, and what an API request can.
ProfileForms ==
    [first_name : Names, last_name : Names, email : Emails, phone_number : Phones,
     currency : Currencies, timezone : Timezones, date_of_birth : BirthDates,
     bio : Bios]

SerializerDomain ==
    [first_name |-> Names, last_name |-> Names, phone_number |-> Phones,
     currency |-> Currencies, timezone |-> Timezones,
     date_of_birth |-> BirthDates, bio |-> Bios]

\* A request carrying all seven fields of the serializer (a PUT), or one of
\* them (a PATCH).
ApiRequests ==
    [first_name : Names, last_name : Names, phone_number : Phones,
     currency : Currencies, timezone : Timezones, date_of_birth : BirthDates,
     bio : Bios]
    \cup UNION {{[x \in {k} |-> v] : v \in SerializerDomain[k]} :
                k \in DOMAIN SerializerDomain}

\* Any row the users table can hold with the premium fields at their
\* defaults.  (A row saved through the ORM is not validated, so the email can
\* be empty; the forms and serializers require it.)
Profiles ==
    {[NewUser EXCEPT !.first_name = f.first_name, !.last_name = f.last_name,
                     !.email = f.email, !.phone_number = f.phone_number,
                     !.currency = f.currency, !.timezone = f.timezone,
                     !.date_of_birth = f.date_of_birth, !.bio = f.bio,
                     !.profile_picture = pic] :
     f \in ProfileForms, pic \in Pictures}


-----------------------------------------------------------------------------
(* The specifications of the account.                                      *)

InitPremium == NoAccount /\ NoManaged /\ NoRSA /\ NoStore /\ NoCatalog

NextPremium ==
    \/ Tick
    \/ \E flag \in BOOLEAN, expiry \in {None} \cup {Some(t) : t \in Times} :
          AdminSetPremium(flag, expiry)
    \/ ReadPremiumActive

SpecPremium == InitPremium /\ [][NextPremium]_vars

InitProfile ==
    /\ now = 0
    /\ user \in Profiles
    /\ premium_shown = None
    /\ profile_completion = None
    /\ NoManaged /\ NoRSA /\ NoStore /\ NoCatalog

\* The profile page and the deletion of the picture come at any time, also
\* between the two saves of an upload; the edits of the other columns come
\* between the requests.
NextProfile ==
    \/ ViewProfile
    \/ \E f \in ProfileForms : writer = None /\ EditProfile(f)
    \/ \E data \in ApiRequests : writer = None /\ ApiUpdateProfile(data)
    \/ \E file \in {Val(x) : x \in Pictures \ {None}} : ApiUploadPicture(file)
    \/ ApiUploadPictureCommit
    \/ ApiDeletePicture

SpecProfile == InitProfile /\ [][NextProfile]_vars


-----------------------------------------------------------------------------
(* SpecManaged and SpecRSA: a balance row is shown and its derived fields  *)
(* are evaluated (ManagedFundBalanceAdmin lists total_return_percentage,   *)
(* RSABalanceAdmin total_contributions).                                   *)

\* The amounts a column takes in the model, in cents: a range around zero and
\* the amounts of the documented examples.
GainCents == (-MaxCents..MaxCents) \cup {15000, -2000, 1000}
InvestedCents == (-MaxCents..MaxCents) \cup {3, 7, 100000}
ContributionCents == (-MaxCents..MaxCents) \cup {50000, 60000, 10000}
ReturnCents == {0, 2500}

ManagedFundBalances ==
    [unrealized_gain_loss : GainCents, realized_gain_loss : GainCents,
     total_dividends_received : GainCents, total_invested : InvestedCents]

RSABalances ==
    [total_employee_contributions : ContributionCents,
     total_employer_contributions : ContributionCents,
     total_voluntary_contributions : ContributionCents,
     investment_returns : ReturnCents]

\* balance.total_return is read.
ReadTotalReturn ==
    /\ mf_display' = [mf_display EXCEPT !.total_return = Some(total_return(mf_balance))]
    /\ UNCHANGED <<mf_balance, accountVars, rsaVars, storeVars, catalogVars>>

\* balance.total_return_percentage is read (the admin's list column).
ReadTotalReturnPercentage ==
    /\ mf_display' = [mf_display EXCEPT
                        !.total_return_percentage = Some(total_return_percentage(mf_balance))]
    /\ UNCHANGED <<mf_balance, accountVars, rsaVars, storeVars, catalogVars>>

InitManaged ==
    /\ mf_balance \in ManagedFundBalances
    /\ mf_display = [total_return |-> None, total_return_percentage |-> None]
    /\ NoAccount /\ NoRSA /\ NoStore /\ NoCatalog

NextManaged ==
    \/ ReadTotalReturn
    \/ ReadTotalReturnPercentage

SpecManaged == InitManaged /\ [][NextManaged]_vars

\* balance.total_contributions is read (the admin's list column).
ReadTotalContributions ==
    /\ rsa_display' = Some(total_contributions(rsa_balance))
    /\ UNCHANGED <<rsa_balance, accountVars, managedVars, storeVars, catalogVars>>

\* The admin saves the row with another investment_returns.
AdminSetInvestmentReturns(v) ==
    /\ rsa_balance' = [rsa_balance EXCEPT !.investment_returns = v]
    /\ UNCHANGED <<rsa_display, accountVars, managedVars, storeVars, catalogVars>>

InitRSA ==
    /\ rsa_balance \in RSABalances
    /\ rsa_display = None
    /\ NoAccount /\ NoManaged /\ NoStore /\ NoCatalog

NextRSA ==
    \/ ReadTotalContributions
    \/ \E v \in ReturnCents : AdminSetInvestmentReturns(v)

SpecRSA == InitRSA /\ [][NextRSA]_vars

-----------------------------------------------------------------------------
(* The admin's sessions on the balance tables (RSABalanceAdmin,             *)
(* ManagedFundBalanceAdmin).  A session validates its form against the     *)
(* table and then, in a later step, sends the INSERT or the UPDATE; other  *)
(* sessions can write in between.                                          *)

Writers == {"w1", "w2"}

\* A session of the admin: the form it has posted (row), the row its change
\* view has loaded (old) and, when that row has been deleted since, the
\* sessions that hold the deleted row's primary key (gone), itself among
\* them.
Idle == [pc |-> "idle", table |-> "", row |-> None, old |-> None, gone |-> {}, result |-> ""]

\* The row a session's change form was loaded from is held by its primary
\* key: when another request changes that row the session's row is the
\* changed one, and when another request deletes it the session has no row
\* but keeps the key, with the other sessions that had loaded the row.
Retargeted(t, old, new) ==
    LET holders == {w \in DOMAIN writer :
                       /\ writer[w].pc = "validated"
                       /\ writer[w].table = t
                       /\ writer[w].old = Some(old)}
    IN [w \in DOMAIN writer |->
          IF w \in holders
          THEN [writer[w] EXCEPT !.old = new,
                                 !.gone = IF new = None THEN holders ELSE {}]
          ELSE writer[w]]

\* Session w has inserted the row r.  When w is a change view whose row had
\* been deleted, save() has inserted r under the primary key the view
\* holds, and the other sessions that hold that key hold the row r.
Reinserted(w, r) ==
    [x \in DOMAIN writer |->
        IF /\ x # w
           /\ writer[w].gone # {}
           /\ writer[x].pc = "validated"
           /\ writer[x].old = None
           /\ writer[x].gone = writer[w].gone
        THEN [writer[x] EXCEPT !.old = Some(r), !.gone = {}]
        ELSE writer[x]]

\* The add form is posted: is_valid() runs validate_unique.
SubmitAdd(w, t, r) ==
    /\ writer[w].pc = "idle"
    /\ writer' = [writer EXCEPT ![w] =
                    IF validate_unique_fails(balances[t], r, None)
                    THEN [pc |-> "done", table |-> t, row |-> Some(r), old |-> None, gone |-> {},
                          result |-> "ValidationError"]
                    ELSE [pc |-> "validated", table |-> t, row |-> Some(r), old |-> None, gone |-> {},
                          result |-> ""]]
    /\ UNCHANGED <<balances, outcome, accountVars, managedVars, rsaVars, catalogVars>>

\* The validated form is saved and the INSERT reaches the database: the add
\* form's, and the change form's when no row has its primary key, the row
\* deleted meanwhile (save() finds no row to UPDATE and inserts under the
\* key).  The table grows to MaxRows rows at most.
CommitAdd(w) ==
    /\ writer[w].pc = "validated"
    /\ writer[w].old = None
    /\ LET t == writer[w].table
           r == Val(writer[w].row)
       IN IF unique_constraint_violated(balances[t], r, None)
          THEN /\ balances' = balances
               /\ writer' = [writer EXCEPT ![w].pc = "done", ![w].gone = {},
                                           ![w].result = "IntegrityError"]
          ELSE /\ RowCount < MaxRows
               /\ balances' = Insert(t, r)
               /\ writer' = [Reinserted(w, r) EXCEPT
                                ![w].pc = "done", ![w].gone = {}, ![w].result = "saved"]
    /\ UNCHANGED <<outcome, accountVars, managedVars, rsaVars, catalogVars>>

\* The change form of the row `old` is posted: is_valid() runs
\* validate_unique with the row itself set aside.
SubmitChange(w, t, old, r) ==
    /\ writer[w].pc = "idle"
    /\ BagIn(old, balances[t])
    /\ writer' = [writer EXCEPT ![w] =
                    IF validate_unique_fails(balances[t], r, Some(old))
                    THEN [pc |-> "done", table |-> t, row |-> Some(r), old |-> None, gone |-> {},
                          result |-> "ValidationError"]
                    ELSE [pc |-> "validated", table |-> t, row |-> Some(r),
                          old |-> Some(old), gone |-> {}, result |-> ""]]
    /\ UNCHANGED <<balances, outcome, accountVars, managedVars, rsaVars, catalogVars>>

\* The validated change form is saved: the UPDATE reaches the database.
CommitChange(w) ==
    /\ writer[w].pc = "validated"
    /\ writer[w].old # None
    /\ LET t == writer[w].table
           r == Val(writer[w].row)
           old == Val(writer[w].old)
       IN IF unique_constraint_violated(balances[t], r, Some(old))
          THEN /\ balances' = balances
               /\ writer' = [writer EXCEPT ![w].pc = "done", ![w].old = None,
                                           ![w].result = "IntegrityError"]
          ELSE /\ balances' = Replace(t, old, r)
               /\ writer' = [Retargeted(t, old, Some(r)) EXCEPT
                                ![w].pc = "done", ![w].old = None, ![w].result = "saved"]
    /\ UNCHANGED <<outcome, accountVars, managedVars, rsaVars, catalogVars>>

\* The session's response is sent and the session is free for the next form.
AnswerAdmin(w) ==
    /\ writer[w].pc = "done"
    /\ outcome' = writer[w].result
    /\ writer' = [writer EXCEPT ![w] = Idle]
    /\ UNCHANGED <<balances, accountVars, managedVars, rsaVars, catalogVars>>

-----------------------------------------------------------------------------
(* SpecSnapshot: balance rows are written through the ORM (Model.save(),   *)
(* Model.delete()), one request a step.                                    *)

\* Model.objects.create(...): an INSERT.  The table grows to MaxRows rows at
\* most.
CreateBalance(t, r) ==
    /\ IF unique_constraint_violated(balances[t], r, None)
       THEN balances' = balances /\ outcome' = "IntegrityError"
       ELSE RowCount < MaxRows /\ balances' = Insert(t, r) /\ outcome' = "saved"
    /\ UNCHANGED <<writer, accountVars, managedVars, rsaVars, catalogVars>>

\* save() of a loaded row with changed columns: an UPDATE.
SaveBalance(t, old, r) ==
    /\ BagIn(old, balances[t])
    /\ IF unique_constraint_violated(balances[t], r, Some(old))
       THEN balances' = balances /\ outcome' = "IntegrityError" /\ writer' = writer
       ELSE /\ balances' = Replace(t, old, r)
            /\ outcome' = "saved"
            /\ writer' = Retargeted(t, old, Some(r))
    /\ UNCHANGED <<accountVars, managedVars, rsaVars, catalogVars>>

\* delete() of a row, from code or from the admin.
DeleteBalance(t, old) ==
    /\ BagIn(old, balances[t])
    /\ balances' = Remove(t, old)
    /\ outcome' = "deleted"
    /\ writer' = Retargeted(t, old, None)
    /\ UNCHANGED <<accountVars, managedVars, rsaVars, catalogVars>>

InitSnapshot == NoAccount /\ NoManaged /\ NoRSA /\ NoStore /\ NoCatalog

NextSnapshot ==
    \/ \E t \in BalanceTables, r \in BalanceRows : CreateBalance(t, r)
    \/ \E t \in BalanceTables, old \in BalanceRows, r \in BalanceRows : SaveBalance(t, old, r)
    \/ \E t \in BalanceTables, old \in BalanceRows : DeleteBalance(t, old)

SpecSnapshot == InitSnapshot /\ [][NextSnapshot]_vars

-----------------------------------------------------------------------------
(* SpecForms: the forms of one admin session on the RSA balances, and the  *)
(* ORM's requests on that table, which can act between a form's validation *)
(* and its write.  The rows are those of two funds on two dates.           *)

FormTables == {"rsa_balances"}
FormRows == {r \in BalanceRows : r.fund \in {1, 2} /\ r.balance_date \in {1, 2}}

InitForms ==
    /\ balances = [t \in BalanceTables |-> EmptyBag]
    /\ outcome = "none"
    /\ writer = [w \in {"w1"} |-> Idle]
    /\ NoAccount /\ NoManaged /\ NoRSA /\ NoCatalog

NextForms ==
    \/ \E t \in FormTables, r \in FormRows : CreateBalance(t, r)
    \/ \E t \in FormTables, old \in FormRows, r \in FormRows : SaveBalance(t, old, r)
    \/ \E t \in FormTables, old \in FormRows : DeleteBalance(t, old)
    \/ \E w \in DOMAIN writer, t \in FormTables, r \in FormRows : SubmitAdd(w, t, r)
    \/ \E w \in DOMAIN writer : CommitAdd(w)
    \/ \E w \in DOMAIN writer, t \in FormTables, old \in FormRows, r \in FormRows :
          SubmitChange(w, t, old, r)
    \/ \E w \in DOMAIN writer : CommitChange(w)
    \/ \E w \in DOMAIN writer : AnswerAdmin(w)

SpecForms == InitForms /\ [][NextForms]_vars

-----------------------------------------------------------------------------
(* SpecWriters: two admin sessions each add one balance row.               *)

InitWriters ==
    /\ balances = [t \in BalanceTables |-> EmptyBag]
    /\ outcome = "none"
    /\ writer = [w \in Writers |-> Idle]
    /\ NoAccount /\ NoManaged /\ NoRSA /\ NoCatalog

NextWriters ==
    \/ \E w \in Writers, t \in BalanceTables, r \in BalanceRows : SubmitAdd(w, t, r)
    \/ \E w \in Writers : CommitAdd(w)

SpecWriters == InitWriters /\ [][NextWriters]_vars

-----------------------------------------------------------------------------
(* SpecPerformance: budgets.FundPerformance rows are written one request   *)
(* at a time, through the ORM and through FundPerformanceAdmin.  A row is  *)
(* the four columns that identify its period.                              *)

PeriodTypes == {"MONTHLY", "YEARLY"}
PeriodStartDates == {1, 2}
PeriodEndDates == {2, 3}
PerformanceRows ==
    [fund : Funds, period_type : PeriodTypes,
     period_start_date : PeriodStartDates, period_end_date : PeriodEndDates]

\* FundPerformance.Meta.unique_together.
performance_unique_together ==
    {"fund", "period_type", "period_start_date", "period_end_date"}

\* The mutant of the database constraint: enforced when a row is inserted and
\* not when one is updated.
performance_constraint_on_insert(b, r, old) ==
    /\ old = None
    /\ \E x \in OtherRows(b, old) : \A c \in performance_unique_together : x[c] = r[c]

\* The UNIQUE constraint the migration creates from unique_together.
performance_constraint_violated(b, r, old) ==
    \E x \in OtherRows(b, old) : \A c \in performance_unique_together : x[c] = r[c]

\* Model.validate_unique, run by the admin's ModelForm.
performance_validate_unique_fails(b, r, old) ==
    \E x \in OtherRows(b, old) : \A c \in performance_unique_together : x[c] = r[c]

\* The table of performance rows becomes b, the request is answered with o
\* and the admin's sessions become wr.
PerformanceWrite(b, o, wr) ==
    /\ db' = [db EXCEPT !.fund_performance = b]
    /\ outcome' = o
    /\ writer' = wr
    /\ UNCHANGED <<balances, accountVars, managedVars, rsaVars>>

\* FundPerformance.objects.create(...).
CreatePerformance(r) ==
    LET b == db.fund_performance
    IN IF performance_constraint_violated(b, r, None)
       THEN PerformanceWrite(b, "IntegrityError", writer)
       ELSE /\ BagCardinality(b) < MaxRows
            /\ PerformanceWrite(b (+) SetToBag({r}), "saved", writer)

\* save() of a loaded row with changed columns.
SavePerformance(old, r) ==
    LET b == db.fund_performance
    IN /\ BagIn(old, b)
       /\ IF performance_constraint_violated(b, r, Some(old))
          THEN PerformanceWrite(b, "IntegrityError", writer)
          ELSE PerformanceWrite((b (-) SetToBag({old})) (+) SetToBag({r}), "saved",
                                Retargeted("fund_performance", old, Some(r)))

\* delete() of a row, from code or from the admin.
DeletePerformance(old) ==
    /\ BagIn(old, db.fund_performance)
    /\ PerformanceWrite(db.fund_performance (-) SetToBag({old}), "deleted",
                        Retargeted("fund_performance", old, None))

\* A step of an admin session on the performance table: the table becomes b
\* and the session w becomes s.
PerformanceSessionStep(w, b, s) ==
    /\ db' = [db EXCEPT !.fund_performance = b]
    /\ writer' = [writer EXCEPT ![w] = s]
    /\ UNCHANGED <<balances, outcome, accountVars, managedVars, rsaVars>>

\* FundPerformanceAdmin's add view is posted: is_valid() runs
\* validate_unique.
SubmitAddPerformance(w, r) ==
    /\ writer[w].pc = "idle"
    /\ PerformanceSessionStep(w, db.fund_performance,
          IF performance_validate_unique_fails(db.fund_performance, r, None)
          THEN [pc |-> "done", table |-> "fund_performance", row |-> Some(r),
                old |-> None, gone |-> {}, result |-> "ValidationError"]
          ELSE [pc |-> "validated", table |-> "fund_performance", row |-> Some(r),
                old |-> None, gone |-> {}, result |-> ""])

\* The validated form is saved and the INSERT reaches the database: the add
\* form's, and the change form's when no row has its primary key, the row
\* deleted meanwhile (save() finds no row to UPDATE and inserts under the
\* key; the other sessions that hold the key hold the row inserted).
CommitAddPerformance(w) ==
    /\ writer[w].pc = "validated"
    /\ writer[w].old = None
    /\ LET b == db.fund_performance
           r == Val(writer[w].row)
       IN IF performance_constraint_violated(b, r, None)
          THEN PerformanceSessionStep(w, b,
                  [writer[w] EXCEPT !.pc = "done", !.gone = {},
                                    !.result = "IntegrityError"])
          ELSE /\ BagCardinality(b) < MaxRows
               /\ db' = [db EXCEPT !.fund_performance = b (+) SetToBag({r})]
               /\ writer' = [Reinserted(w, r) EXCEPT
                                ![w].pc = "done", ![w].gone = {}, ![w].result = "saved"]
               /\ UNCHANGED <<balances, outcome, accountVars, managedVars, rsaVars>>

\* FundPerformanceAdmin's change view of the row `old` is posted.
SubmitChangePerformance(w, old, r) ==
    /\ writer[w].pc = "idle"
    /\ BagIn(old, db.fund_performance)
    /\ PerformanceSessionStep(w, db.fund_performance,
          IF performance_validate_unique_fails(db.fund_performance, r, Some(old))
          THEN [pc |-> "done", table |-> "fund_performance", row |-> Some(r),
                old |-> None, gone |-> {}, result |-> "ValidationError"]
          ELSE [pc |-> "validated", table |-> "fund_performance", row |-> Some(r),
                old |-> Some(old), gone |-> {}, result |-> ""])

\* The validated change form is saved: the UPDATE, by primary key, reaches
\* the database, and the other sessions that hold the row hold it changed.
CommitChangePerformance(w) ==
    /\ writer[w].pc = "validated"
    /\ writer[w].old # None
    /\ LET b == db.fund_performance
           r == Val(writer[w].row)
           old == Val(writer[w].old)
       IN IF performance_constraint_violated(b, r, Some(old))
          THEN PerformanceSessionStep(w, b,
                  [writer[w] EXCEPT !.pc = "done", !.old = None,
                                    !.result = "IntegrityError"])
          ELSE /\ db' = [db EXCEPT !.fund_performance =
                                     (b (-) SetToBag({old})) (+) SetToBag({r})]
               /\ writer' = [Retargeted("fund_performance", old, Some(r)) EXCEPT
                                ![w].pc = "done", ![w].old = None, ![w].result = "saved"]
               /\ UNCHANGED <<balances, outcome, accountVars, managedVars, rsaVars>>

\* The rows SpecPerformance writes: the periods of fund 1 that end on date 2,
\* one that ends on date 3, and one of fund 2.
PerformanceForms ==
    {r \in PerformanceRows :
        \/ r.fund = 1 /\ r.period_end_date = 2
        \/ /\ r.fund \in {1, 2}
           /\ r.period_type = "MONTHLY"
           /\ r.period_start_date = 1
           /\ r.period_end_date = IF r.fund = 1 THEN 3 ELSE 2}

\* The rows the two admin sessions post: the monthly periods of fund 1.
PerformancePosts ==
    {r \in PerformanceForms : r.fund = 1 /\ r.period_type = "MONTHLY"}

InitPerformance ==
    /\ balances = [t \in BalanceTables |-> EmptyBag]
    /\ outcome = "none"
    /\ writer = [w \in Writers |-> Idle]
    /\ NoAccount /\ NoManaged /\ NoRSA /\ NoCatalog

NextPerformance ==
    \/ \E r \in PerformanceForms : CreatePerformance(r)
    \/ \E old \in PerformanceForms, r \in PerformanceForms : SavePerformance(old, r)
    \/ \E old \in PerformanceForms : DeletePerformance(old)
    \/ \E w \in DOMAIN writer, r \in PerformancePosts : SubmitAddPerformance(w, r)
    \/ \E w \in DOMAIN writer : CommitAddPerformance(w)
    \/ \E w \in DOMAIN writer, old \in PerformancePosts, r \in PerformancePosts :
          SubmitChangePerformance(w, old, r)
    \/ \E w \in DOMAIN writer : CommitChangePerformance(w)
    \/ \E w \in DOMAIN writer : AnswerAdmin(w)

SpecPerformance == InitPerformance /\ [][NextPerformance]_vars

-----------------------------------------------------------------------------
(* SpecUploads: budgets.FundDataUpload rows.  A job is created with the    *)
(* column default, worked on by the upload processing, and added, changed  *)
(* and deleted in FundDataUploadAdmin.  A row carries the user, the fund   *)
(* and the status of the job; the file uploaded with a job is a name in    *)
(* the media storage.                                                      *)

\* Two of the strings get_random_string(7) returns.
RandomStrings == {"x7Kq2Lm", "Pd93hTz"}

\* The name of an uploaded file, given as its root and its extension.
FileName(f) == f.root \o f.ext

\* The file f under directory dir with the random string k before its
\* extension.
Alternative(dir, f, k) == dir \o f.root \o "_" \o k \o f.ext

\* Storage.get_available_name: the name of f under dir when no file has it;
\* otherwise that name with a random string before the extension, drawn
\* again for as long as a file has the name drawn.  The result is any one of
\* the alternatives that no file has.
get_available_name(files, dir, f) ==
    IF dir \o FileName(f) \notin files THEN {dir \o FileName(f)}
    ELSE {Alternative(dir, f, k) : k \in RandomStrings} \ files

\* FundDataUpload.STATUS_CHOICES.
UploadStatuses == {"PENDING", "PROCESSING", "COMPLETED", "FAILED"}

UploadIds == 1..MaxRows

\* Rows of a table keyed by primary key.
Put(f, k, v) == [x \in DOMAIN f \cup {k} |-> IF x = k THEN v ELSE f[x]]
Drop(f, k) == [x \in DOMAIN f \ {k} |-> f[x]]
FreeIds(f, ids) == ids \ DOMAIN f
NewId(f, ids) == CHOOSE i \in FreeIds(f, ids) : \A j \in FreeIds(f, ids) : i <= j

\* The keys of table t that the row r of a form of table ft names in its
\* foreign key columns.
NamedKeys(ft, r, t) ==
    CASE ft = "funds" /\ t = "accounts" -> {r.user}
      [] ft = "funds" /\ t = "fund_types" -> {r.fund_type}
      [] ft = "funds" /\ t = "fund_managers" ->
            IF r.fund_manager = None THEN {} ELSE {Val(r.fund_manager)}
      [] ft = "fund_types" /\ t = "accounts" -> IF r.user = None THEN {} ELSE {Val(r.user)}
      [] ft = "fund_managers" /\ t = "accounts" -> {r.user}
      [] ft = "rsa_contributions" /\ t = "funds" -> {r.rsa_fund}
      [] ft = "managed_fund_transactions" /\ t = "funds" -> {r.managed_fund}
      [] ft = "fund_data_uploads" /\ t = "accounts" -> {r.user}
      [] ft = "fund_data_uploads" /\ t = "funds" ->
            IF r.fund = None THEN {} ELSE {Val(r.fund)}
      [] OTHER -> {}

\* The primary keys of table t that an admin view in progress holds: the key
\* of the row a change view has loaded, and the keys its validated form
\* names.  The database gives a new row a key that no row has had
\* (AUTOINCREMENT, a sequence), so a row inserted while the view is in
\* progress gets none of these keys, whether their rows have been deleted
\* or not.
HeldKeys(t) ==
    LET forms == {x \in DOMAIN writer :
                     writer[x].table \in {"fund_data_uploads", "rsa_contributions",
                                          "managed_fund_transactions", "fund_types",
                                          "fund_managers", "funds"}}
    IN {Val(writer[w].id) : w \in {x \in forms : writer[x].table = t /\ writer[x].id # None}}
       \cup UNION {NamedKeys(writer[w].table, Val(writer[w].row), t) : w \in forms}

UploadsWrite(f, o) ==
    /\ db' = [db EXCEPT !.fund_data_uploads = f]
    /\ outcome' = o
    /\ UNCHANGED <<balances, writer, accountVars, managedVars, rsaVars>>

\* FundDataUpload.user names an account and FundDataUpload.fund, when it is
\* set, a Fund.
upload_references_exist(d, r) ==
    /\ r.user \in d.accounts
    /\ r.fund # None => Val(r.fund) \in DOMAIN d.funds

\* FundDataUpload.objects.create(user=..., fund=...) without a status and
\* without a file: default='PENDING'.
CreateUpload(owner, fund) ==
    LET f == db.fund_data_uploads
        r == [user |-> owner, fund |-> fund, status |-> "PENDING"]
    IN IF ~upload_references_exist(db, r) THEN UploadsWrite(f, "IntegrityError")
       ELSE /\ FreeIds(f, UploadIds \ HeldKeys("fund_data_uploads")) # {}
            /\ UploadsWrite(Put(f, NewId(f, UploadIds \ HeldKeys("fund_data_uploads")), r),
                            "saved")

\* The processing of an upload takes up a pending job.
StartProcessing(id) ==
    LET f == db.fund_data_uploads
    IN /\ id \in DOMAIN f
       /\ f[id].status = "PENDING"
       /\ UploadsWrite(Put(f, id, [f[id] EXCEPT !.status = "PROCESSING"]), "saved")

\* The processing of an upload ends.
FinishProcessing(id, s) ==
    LET f == db.fund_data_uploads
    IN /\ id \in DOMAIN f
       /\ f[id].status = "PROCESSING"
       /\ s \in {"COMPLETED", "FAILED"}
       /\ UploadsWrite(Put(f, id, [f[id] EXCEPT !.status = s]), "saved")

\* FundDataUploadAdmin's delete view.
AdminDeleteUpload(id) ==
    LET f == db.fund_data_uploads
    IN /\ id \in DOMAIN f
       /\ UploadsWrite(Drop(f, id), "deleted")

-----------------------------------------------------------------------------
(* budgets: the funds, their specializations and the rows under them.      *)
(* Deleting a row deletes with it what Django's collector reaches through  *)
(* the on_delete=CASCADE foreign keys.                                     *)

Accounts == {"a", "b"}
FundTypeIds == {1, 2}
FundManagerIds == {1}
LogIds == 1..MaxRows

FundRows ==
    [user : Accounts, fund_type : FundTypeIds,
     fund_manager : {None} \cup {Some(i) : i \in FundManagerIds},
     is_active : BOOLEAN]

\* RSAContribution.CONTRIBUTION_TYPE_CHOICES and the amounts, in cents, a
\* request can carry.
ContributionTypes == {"EMPLOYEE", "EMPLOYER"}
ContributionAmounts == (-1)..MaxCents
RSAContributionRows ==
    [rsa_fund : Funds, contribution_date : Dates, contribution_type : ContributionTypes,
     amount : ContributionAmounts, units_purchased : {0, 10000}, nav_per_unit : {0, 10000}]

\* ManagedFundTransaction.TRANSACTION_TYPE_CHOICES; amounts are "positive for
\* inflow, negative for outflow".
TransactionTypes == {"PURCHASE", "REDEMPTION"}
ManagedFundTransactionRows ==
    [managed_fund : Funds, transaction_date : Dates, transaction_type : TransactionTypes,
     amount : ContributionAmounts, units : {0, 10000}, price_per_unit : {0, 10000}]

\* The rows of a keyed table, and of a bag, that satisfy Keep.
KeptRows(f, Keep(_)) == [k \in {x \in DOMAIN f : Keep(f[x])} |-> f[k]]
KeptCopies(b, Keep(_)) == [r \in {x \in BagToSet(b) : Keep(x)} |-> b[r]]

\* RSAContribution.rsa_fund and RSABalance.rsa_fund, on_delete=CASCADE.
WithoutRSAFunds(d, ids) ==
    [d EXCEPT !.rsa_funds = @ \ ids,
              !.rsa_contributions = KeptRows(@, LAMBDA r : r.rsa_fund \notin ids)]

\* ManagedFundTransaction.managed_fund and ManagedFundBalance.managed_fund,
\* on_delete=CASCADE.
WithoutManagedFunds(d, ids) ==
    [d EXCEPT !.managed_funds = @ \ ids,
              !.managed_fund_transactions =
                  KeptRows(@, LAMBDA r : r.managed_fund \notin ids)]

BalancesWithout(b, t, ids) ==
    [b EXCEPT ![t] = KeptCopies(@, LAMBDA r : r.fund \notin ids)]

\* The upload job r names one of the funds ids.
UploadOfFunds(r, ids) == r.fund # None /\ Val(r.fund) \in ids

\* The mutant of WithoutFunds: FundPerformance.fund does not cascade.
WithoutFunds_keeping_performance(d, ids) ==
    [WithoutManagedFunds(WithoutRSAFunds(d, ids), ids)
        EXCEPT !.funds = [k \in DOMAIN @ \ ids |-> @[k]],
               !.fund_data_uploads = KeptRows(@, LAMBDA r : ~UploadOfFunds(r, ids))]

\* RSAFund.fund, ManagedFund.fund, FundPerformance.fund and
\* FundDataUpload.fund, on_delete=CASCADE: the funds ids go, and with them
\* their specializations, the rows under those, their performance rows and
\* the upload jobs that name them.
WithoutFunds(d, ids) ==
    [WithoutManagedFunds(WithoutRSAFunds(d, ids), ids)
        EXCEPT !.funds = [k \in DOMAIN @ \ ids |-> @[k]],
               !.fund_performance = KeptCopies(@, LAMBDA r : r.fund \notin ids),
               !.fund_data_uploads = KeptRows(@, LAMBDA r : ~UploadOfFunds(r, ids))]

\* The number of rows in the tables under the funds, the upload jobs
\* included.
RowsUnderFunds(d, b) ==
    Cardinality(d.rsa_funds) + Cardinality(d.managed_funds)
      + Cardinality(DOMAIN d.rsa_contributions)
      + Cardinality(DOMAIN d.managed_fund_transactions)
      + BagCardinality(d.fund_performance)
      + Cardinality(DOMAIN d.fund_data_uploads)
      + BagCardinality(b["rsa_balances"]) + BagCardinality(b["managed_fund_balances"])

ChildRows(d, b) ==
    RowsUnderFunds(d, b) - Cardinality(d.rsa_funds) - Cardinality(d.managed_funds)

\* Model.delete() returns the number of rows deleted: "deleted" is one row,
\* "cascaded" more than one.
Deleted(d, b, d2, b2) ==
    IF Cardinality(DOMAIN d.funds) + Cardinality(DOMAIN d.fund_types)
         + Cardinality(DOMAIN d.fund_managers) + Cardinality(d.accounts)
         + RowsUnderFunds(d, b)
       > 1 + Cardinality(DOMAIN d2.funds) + Cardinality(DOMAIN d2.fund_types)
           + Cardinality(DOMAIN d2.fund_managers) + Cardinality(d2.accounts)
           + RowsUnderFunds(d2, b2)
    THEN "cascaded" ELSE "deleted"

CatalogWrite(d, b, o) ==
    /\ db' = d
    /\ balances' = b
    /\ outcome' = o
    /\ UNCHANGED <<writer, accountVars, managedVars, rsaVars>>

Refused(o) == CatalogWrite(db, balances, o)

\* The foreign keys of a Fund row name existing rows.
FundRefsExist(d, r) ==
    /\ r.user \in d.accounts
    /\ r.fund_type \in DOMAIN d.fund_types
    /\ r.fund_manager # None => Val(r.fund_manager) \in DOMAIN d.fund_managers

\* The funds table after save() of fund id with the columns r; is_active is
\* a column like the others.
SavedFund(f, id, r) == Put(f, id, r)

\* Fund.objects.create(...): the foreign keys are checked by the database.
AddFund(r) ==
    IF ~FundRefsExist(db, r) THEN Refused("IntegrityError")
    ELSE /\ FreeIds(db.funds, Funds \ HeldKeys("funds")) # {}
         /\ CatalogWrite([db EXCEPT !.funds = Put(@, NewId(@, Funds \ HeldKeys("funds")), r)],
                         balances, "saved")

\* save() of a loaded Fund; clearing is_active is the soft disable.
ChangeFund(id, r) ==
    /\ id \in DOMAIN db.funds
    /\ IF ~FundRefsExist(db, r) THEN Refused("IntegrityError")
       ELSE CatalogWrite([db EXCEPT !.funds = SavedFund(@, id, r)], balances, "saved")

\* Fund.delete() and FundAdmin's delete view and delete_selected action.
DeleteFund(id) ==
    /\ id \in DOMAIN db.funds
    /\ LET d == WithoutFunds(db, {id})
           b == BalancesWithout(BalancesWithout(balances, "rsa_balances", {id}),
                                "managed_fund_balances", {id})
       IN CatalogWrite(d, b, Deleted(db, balances, d, b))

\* RSAFund.objects.create(fund=...).  fund is the primary key of the row.
AddRSAFund(fund) ==
    IF fund \notin DOMAIN db.funds \/ fund \in db.rsa_funds
    THEN Refused("IntegrityError")
    ELSE CatalogWrite([db EXCEPT !.rsa_funds = @ \cup {fund}], balances, "saved")

\* ManagedFund.objects.create(fund=...).
AddManagedFund(fund) ==
    IF fund \notin DOMAIN db.funds \/ fund \in db.managed_funds
    THEN Refused("IntegrityError")
    ELSE CatalogWrite([db EXCEPT !.managed_funds = @ \cup {fund}], balances, "saved")

\* RSAFund.delete() and RSAFundAdmin's delete view.
DeleteRSAFund(fund) ==
    /\ fund \in db.rsa_funds
    /\ LET d == WithoutRSAFunds(db, {fund})
           b == BalancesWithout(balances, "rsa_balances", {fund})
       IN CatalogWrite(d, b, Deleted(db, balances, d, b))

\* ManagedFund.delete() and ManagedFundAdmin's delete view.
DeleteManagedFund(fund) ==
    /\ fund \in db.managed_funds
    /\ LET d == WithoutManagedFunds(db, {fund})
           b == BalancesWithout(balances, "managed_fund_balances", {fund})
       IN CatalogWrite(d, b, Deleted(db, balances, d, b))

\* validators=[MinValueValidator(Decimal('0.01'))] on RSAContribution.amount,
\* in cents.  Validators run in full_clean(), which a ModelForm calls and
\* Model.save() does not.
amount_validators_fail(r) == r.amount < 1

\* The mutant of foreign_key_violated: the column declared with
\* db_constraint=False, so that the database checks nothing.
foreign_key_unchecked(parents, ref) == FALSE

\* The FOREIGN KEY constraint of a ForeignKey or OneToOneField column, and the
\* ModelChoiceField that a ModelForm builds from it: the referenced row is
\* not among the parent table's rows.
foreign_key_violated(parents, ref) == ref \notin parents

\* The mutant of SnapshotsAfterLogRow: a snapshot of the fund is derived from
\* the log when the fund has none for the first date.
SnapshotsAfterLogRow_deriving_balance(b, t, fund) ==
    IF \E x \in BagToSet(b[t]) : x.fund = fund /\ x.balance_date = 1
    THEN b
    ELSE [b EXCEPT ![t] = @ (+) SetToBag({[fund |-> fund, balance_date |-> 1,
                                           market_value |-> 100]})]

\* The balance tables after a row is added to the log of `fund`: neither
\* RSAContribution nor ManagedFundTransaction overrides save() or has a signal
\* receiver, so the INSERT of the log row is the whole write.
SnapshotsAfterLogRow(b, t, fund) == b

\* RSAContribution.objects.create(...).
CreateContribution(r) ==
    IF foreign_key_violated(db.rsa_funds, r.rsa_fund) THEN Refused("IntegrityError")
    ELSE /\ ChildRows(db, balances) < MaxRows
         /\ FreeIds(db.rsa_contributions, LogIds \ HeldKeys("rsa_contributions")) # {}
         /\ CatalogWrite([db EXCEPT !.rsa_contributions =
                            Put(@, NewId(@, LogIds \ HeldKeys("rsa_contributions")), r)],
                         SnapshotsAfterLogRow(balances, "rsa_balances", r.rsa_fund),
                         "saved")

\* save() of a loaded RSAContribution with changed columns.
SaveContribution(id, r) ==
    /\ id \in DOMAIN db.rsa_contributions
    /\ IF foreign_key_violated(db.rsa_funds, r.rsa_fund) THEN Refused("IntegrityError")
       ELSE CatalogWrite([db EXCEPT !.rsa_contributions = Put(@, id, r)], balances, "saved")

\* RSAContribution.delete(), RSAContributionAdmin's delete view.
DeleteContribution(id) ==
    /\ id \in DOMAIN db.rsa_contributions
    /\ CatalogWrite([db EXCEPT !.rsa_contributions = Drop(@, id)], balances, "deleted")

\* ManagedFundTransaction.objects.create(...).
CreateTransaction(r) ==
    IF foreign_key_violated(db.managed_funds, r.managed_fund) THEN Refused("IntegrityError")
    ELSE /\ ChildRows(db, balances) < MaxRows
         /\ FreeIds(db.managed_fund_transactions,
                    LogIds \ HeldKeys("managed_fund_transactions")) # {}
         /\ CatalogWrite([db EXCEPT !.managed_fund_transactions =
                            Put(@, NewId(@, LogIds \ HeldKeys("managed_fund_transactions")),
                                r)],
                         SnapshotsAfterLogRow(balances, "managed_fund_balances",
                                              r.managed_fund),
                         "saved")

\* save() of a loaded ManagedFundTransaction.
ChangeTransaction(id, r) ==
    /\ id \in DOMAIN db.managed_fund_transactions
    /\ IF foreign_key_violated(db.managed_funds, r.managed_fund) THEN Refused("IntegrityError")
       ELSE CatalogWrite([db EXCEPT !.managed_fund_transactions = Put(@, id, r)],
                         balances, "saved")

\* ManagedFundTransaction.delete(), ManagedFundTransactionAdmin's delete view.
DeleteTransaction(id) ==
    /\ id \in DOMAIN db.managed_fund_transactions
    /\ CatalogWrite([db EXCEPT !.managed_fund_transactions = Drop(@, id)],
                    balances, "deleted")

\* A balance row is inserted under its specialization.
CreateBalanceUnder(t, r) ==
    IF \/ foreign_key_violated(IF t = "rsa_balances" THEN db.rsa_funds
                               ELSE db.managed_funds, r.fund)
       \/ unique_constraint_violated(balances[t], r, None)
    THEN Refused("IntegrityError")
    ELSE /\ ChildRows(db, balances) < MaxRows
         /\ CatalogWrite(db, Insert(t, r), "saved")

\* A performance row is inserted under its fund.
CreatePerformanceUnder(r) ==
    IF \/ foreign_key_violated(DOMAIN db.funds, r.fund)
       \/ performance_constraint_violated(db.fund_performance, r, None)
    THEN Refused("IntegrityError")
    ELSE /\ ChildRows(db, balances) < MaxRows
         /\ CatalogWrite([db EXCEPT !.fund_performance = @ (+) SetToBag({r})],
                         balances, "saved")

-----------------------------------------------------------------------------
(* SpecCascade: one account and one system-wide fund type exist; funds,    *)
(* their specializations and one kind of row in each table under them are  *)
(* added, and funds and specializations are deleted.                       *)

CascadeFundRows ==
    {r \in FundRows : r.user = "a" /\ r.fund_type = 1 /\ r.fund_manager = None /\ r.is_active}
CascadeContributions ==
    {r \in RSAContributionRows :
        /\ r.contribution_date = 1 /\ r.contribution_type = "EMPLOYEE"
        /\ r.amount = 1 /\ r.units_purchased = 0 /\ r.nav_per_unit = 0}
CascadeTransactions ==
    {r \in ManagedFundTransactionRows :
        /\ r.transaction_date = 1 /\ r.transaction_type = "PURCHASE"
        /\ r.amount = 1 /\ r.units = 0 /\ r.price_per_unit = 0}
CascadeBalances == {r \in BalanceRows : r.balance_date = 1 /\ r.market_value = 0}
CascadePerformance ==
    {r \in PerformanceRows :
        r.period_type = "MONTHLY" /\ r.period_start_date = 1 /\ r.period_end_date = 2}

InitCascade ==
    /\ db = [EmptyDb EXCEPT !.accounts = {"a"},
                            !.fund_types = Put(<<>>, 1, [user |-> None])]
    /\ NoAccount /\ NoManaged /\ NoRSA /\ NoStore

NextCascade ==
    \/ \E r \in CascadeFundRows : AddFund(r)
    \/ \E id \in Funds : DeleteFund(id)
    \/ \E id \in Funds : AddRSAFund(id)
    \/ \E id \in Funds : AddManagedFund(id)
    \/ \E id \in Funds : DeleteRSAFund(id)
    \/ \E id \in Funds : DeleteManagedFund(id)
    \/ \E r \in CascadeContributions : CreateContribution(r)
    \/ \E r \in CascadeTransactions : CreateTransaction(r)
    \/ \E t \in BalanceTables, r \in CascadeBalances : CreateBalanceUnder(t, r)
    \/ \E r \in CascadePerformance : CreatePerformanceUnder(r)

SpecCascade == InitCascade /\ [][NextCascade]_vars

-----------------------------------------------------------------------------
(* Ownership: the accounts and the fund types, fund managers and funds     *)
(* they own.                                                               *)

\* Fund.fund_type, on_delete=PROTECT: some fund names one of the fund types.
fund_type_protected(d, types) ==
    \E f \in DOMAIN d.funds : d.funds[f].fund_type \in types

\* The mutant of WithoutFundManagers: the funds keep naming the deleted rows.
WithoutFundManagers_keeping_references(d, ids) ==
    [d EXCEPT !.fund_managers = [k \in DOMAIN @ \ ids |-> @[k]]]

\* Fund.fund_manager, on_delete=SET_NULL.
WithoutFundManagers(d, ids) ==
    [d EXCEPT !.fund_managers = [k \in DOMAIN @ \ ids |-> @[k]],
              !.funds = [k \in DOMAIN @ |->
                           IF @[k].fund_manager # None /\ Val(@[k].fund_manager) \in ids
                           THEN [@[k] EXCEPT !.fund_manager = None]
                           ELSE @[k]]]

OwnedBy(f, u) == {k \in DOMAIN f : f[k].user = u}

\* UserRegistrationView.register, UserRegistrationTemplateView: a user row
\* under a newly issued key.  u is the key of no account and no form in
\* progress names it, so that no row and no request can take the new
\* account for one that was deleted.
Register(u) ==
    /\ u \notin db.accounts
    /\ u \notin HeldKeys("accounts")
    /\ CatalogWrite([db EXCEPT !.accounts = @ \cup {u}], balances, "saved")

\* The budgets tables after the collector of User.delete() has walked
\* Fund.user, FundManager.user, FundType.user and FundDataUpload.user
\* (CASCADE) from the account u: its funds go with the rows under them, its
\* fund managers go and the funds that name them, of any account, have
\* fund_manager cleared (SET_NULL), its fund types and its uploads go.
WithoutOwnedRows(d, u) ==
    LET d1 == WithoutFunds(d, OwnedBy(d.funds, u))
        d2 == WithoutFundManagers(d1, OwnedBy(d1.fund_managers, u))
    IN [d2 EXCEPT !.fund_types = [k \in DOMAIN @ \ OwnedBy(@, Some(u)) |-> @[k]],
                  !.fund_data_uploads = KeptRows(@, LAMBDA r : r.user # u)]

\* The balance tables after the same walk: the snapshots of u's funds go.
BalancesWithoutOwned(d, b, u) ==
    BalancesWithout(BalancesWithout(b, "rsa_balances", OwnedBy(d.funds, u)),
                    "managed_fund_balances", OwnedBy(d.funds, u))

\* User.delete() in the admin's delete view.  From the account's fund types
\* the collector reaches Fund.fund_type (PROTECT) and raises before
\* anything is deleted.
DeleteAccount(u) ==
    /\ u \in db.accounts
    /\ IF fund_type_protected(db, OwnedBy(db.fund_types, Some(u)))
       THEN Refused("ProtectedError")
       ELSE LET d3 == [WithoutOwnedRows(db, u) EXCEPT !.accounts = @ \ {u}]
                b == BalancesWithoutOwned(db, balances, u)
            IN CatalogWrite(d3, b, Deleted(db, balances, d3, b))

\* FundType.objects.create(user=...); user may be null.
CreateFundType(owner) ==
    IF owner # None /\ foreign_key_violated(db.accounts, Val(owner))
    THEN Refused("IntegrityError")
    ELSE /\ FreeIds(db.fund_types, FundTypeIds \ HeldKeys("fund_types")) # {}
         /\ CatalogWrite([db EXCEPT !.fund_types =
                            Put(@, NewId(@, FundTypeIds \ HeldKeys("fund_types")),
                                [user |-> owner])],
                         balances, "saved")

\* save() of a loaded FundType with another user.
SaveFundType(id, owner) ==
    /\ id \in DOMAIN db.fund_types
    /\ IF owner # None /\ foreign_key_violated(db.accounts, Val(owner))
       THEN Refused("IntegrityError")
       ELSE CatalogWrite([db EXCEPT !.fund_types = Put(@, id, [user |-> owner])],
                         balances, "saved")

\* FundTypeAdmin's delete view.
DeleteFundType(id) ==
    /\ id \in DOMAIN db.fund_types
    /\ IF fund_type_protected(db, {id}) THEN Refused("ProtectedError")
       ELSE CatalogWrite([db EXCEPT !.fund_types = Drop(@, id)], balances, "deleted")

\* FundManager.objects.create(user=...).
CreateFundManager(owner) ==
    IF foreign_key_violated(db.accounts, owner) THEN Refused("IntegrityError")
    ELSE /\ FreeIds(db.fund_managers, FundManagerIds \ HeldKeys("fund_managers")) # {}
         /\ CatalogWrite([db EXCEPT !.fund_managers =
                            Put(@, NewId(@, FundManagerIds \ HeldKeys("fund_managers")),
                                [user |-> owner])],
                         balances, "saved")

\* save() of a loaded FundManager with another user.
SaveFundManager(id, owner) ==
    /\ id \in DOMAIN db.fund_managers
    /\ IF foreign_key_violated(db.accounts, owner) THEN Refused("IntegrityError")
       ELSE CatalogWrite([db EXCEPT !.fund_managers = Put(@, id, [user |-> owner])],
                         balances, "saved")

\* FundManagerAdmin's delete view.
DeleteFundManager(id) ==
    /\ id \in DOMAIN db.fund_managers
    /\ CatalogWrite(WithoutFundManagers(db, {id}), balances, "deleted")

-----------------------------------------------------------------------------
(* The add and change views of the admins of budgets (admin_funds.py), all  *)
(* plain ModelAdmins.  A view validates its form against the tables         *)
(* (form.is_valid(): each foreign key field looks up the row it names) and  *)
(* then, in another statement and with no transaction around the two,       *)
(* writes the row (save_model); other sessions write in between.            *)

NoForm == [pc |-> "idle", table |-> "", id |-> None, row |-> None]

\* The primary keys the rows of table t take.
PrimaryKeys(t) ==
    CASE t = "fund_data_uploads" -> UploadIds
      [] t \in {"rsa_contributions", "managed_fund_transactions"} -> LogIds
      [] t = "fund_types" -> FundTypeIds
      [] t = "fund_managers" -> FundManagerIds
      [] t = "funds" -> Funds

\* The FOREIGN KEY constraints of table t: row r names a row that is not
\* there.
references_missing(d, t, r) ==
    CASE t = "fund_data_uploads" -> ~upload_references_exist(d, r)
      [] t = "rsa_contributions" -> foreign_key_violated(d.rsa_funds, r.rsa_fund)
      [] t = "managed_fund_transactions" ->
            foreign_key_violated(d.managed_funds, r.managed_fund)
      [] t = "fund_types" ->
            r.user # None /\ foreign_key_violated(d.accounts, Val(r.user))
      [] t = "fund_managers" -> foreign_key_violated(d.accounts, r.user)
      [] t = "funds" -> ~FundRefsExist(d, r)

\* form.is_valid() of the admin's ModelForm of table t fails: a choice field
\* or a raw id field names a row that is not there, or a validator of a
\* field refuses its value (RSAContribution.amount is the one field with a
\* validator).
form_invalid(d, t, r) ==
    \/ references_missing(d, t, r)
    \/ t = "rsa_contributions" /\ amount_validators_fail(r)

\* ModelAdmin.changeform_view up to form.is_valid(), in the add view (id is
\* None) and in the change view of the row id, which get_object() finds.  An
\* invalid form is shown again with its errors; a valid one awaits
\* save_model().
SubmitForm(w, t, id, r) ==
    /\ writer[w].pc = "idle"
    /\ id # None => Val(id) \in DOMAIN db[t]
    /\ IF form_invalid(db, t, r)
       THEN /\ outcome' = "ValidationError"
            /\ UNCHANGED writer
       ELSE /\ writer' = [writer EXCEPT ![w] =
                            [pc |-> "validated", table |-> t, id |-> id, row |-> Some(r)]]
            /\ UNCHANGED outcome
    /\ UNCHANGED <<db, balances, accountVars, managedVars, rsaVars>>

\* The file a form uploads, the one required by FundDataUploadAdmin's add
\* view.
UploadedFile == [root |-> "data", ext |-> ".csv"]

\* FieldFile.save() in FileField.pre_save, before the INSERT: the file
\* uploaded with a new FundDataUpload (upload_to='fund_data/%Y/%m/', the
\* uploads here being those of one month) goes to
\* the storage under an available name.  The other forms store no file.
StoredFile(d, s) ==
    IF s.table = "fund_data_uploads" /\ s.id = None
    THEN {d.media \cup {n} : n \in get_available_name(d.media, "fund_data/", UploadedFile)}
    ELSE {d.media}

\* ModelAdmin.save_model(): obj.save().  The database checks the foreign
\* keys against the tables as they are now and raises IntegrityError, the
\* file already stored; the add view INSERTs, the change view UPDATEs, or
\* INSERTs again when the row has been deleted since get_object().
CommitForm(w) ==
    LET s == writer[w]
        t == s.table
        r == Val(s.row)
        key == IF s.id = None THEN NewId(db[t], PrimaryKeys(t) \ HeldKeys(t)) ELSE Val(s.id)
        log == t \in {"rsa_contributions", "managed_fund_transactions"}
    IN /\ s.pc = "validated"
       /\ (t = "fund_data_uploads" /\ s.id = None) => Cardinality(db.media) < MaxFiles
       /\ \E media \in StoredFile(db, s) :
             IF references_missing(db, t, r)
             THEN /\ db' = [db EXCEPT !.media = media]
                  /\ balances' = balances
                  /\ outcome' = "IntegrityError"
             ELSE /\ s.id = None => FreeIds(db[t], PrimaryKeys(t) \ HeldKeys(t)) # {}
                  /\ (log /\ key \notin DOMAIN db[t]) => ChildRows(db, balances) < MaxRows
                  /\ db' = [db EXCEPT ![t] = IF t = "funds" THEN SavedFund(@, key, r)
                                             ELSE Put(@, key, r),
                                      !.media = media]
                  /\ balances' =
                        IF log /\ s.id = None
                        THEN SnapshotsAfterLogRow(
                                balances,
                                IF t = "rsa_contributions" THEN "rsa_balances"
                                ELSE "managed_fund_balances",
                                IF t = "rsa_contributions" THEN r.rsa_fund
                                ELSE r.managed_fund)
                        ELSE balances
                  /\ outcome' = "saved"
       /\ writer' = [writer EXCEPT ![w] = NoForm]
       /\ UNCHANGED <<accountVars, managedVars, rsaVars>>

\* FundDataUploadAdmin's add view: user, fund, status and file are fields of
\* the form, status with the four choices, file required.
AdminAddUpload(w, r) == SubmitForm(w, "fund_data_uploads", None, r)

\* FundDataUploadAdmin's change view: user, fund and status are not among
\* readonly_fields; no other file is uploaded.
AdminChangeUpload(w, id, r) == SubmitForm(w, "fund_data_uploads", Some(id), r)

\* RSAContributionAdmin's add view.
AdminAddContribution(w, r) == SubmitForm(w, "rsa_contributions", None, r)

\* RSAContributionAdmin's change view.
AdminChangeContribution(w, id, r) == SubmitForm(w, "rsa_contributions", Some(id), r)

\* ManagedFundTransactionAdmin's add view: managed_fund is a raw id field of
\* the form; amount has no validator.
AdminAddTransaction(w, r) == SubmitForm(w, "managed_fund_transactions", None, r)

\* ManagedFundTransactionAdmin's change view.
AdminChangeTransaction(w, id, r) ==
    SubmitForm(w, "managed_fund_transactions", Some(id), r)

\* FundTypeAdmin's add view: user may be left blank.
AddFundType(w, owner) == SubmitForm(w, "fund_types", None, [user |-> owner])

\* FundTypeAdmin's change view: user is a field of the form.
ChangeFundType(w, id, owner) == SubmitForm(w, "fund_types", Some(id), [user |-> owner])

\* FundManagerAdmin's add view.
AddFundManager(w, owner) == SubmitForm(w, "fund_managers", None, [user |-> owner])

\* FundManagerAdmin's change view: user is a field of the form.
ChangeFundManager(w, id, owner) ==
    SubmitForm(w, "fund_managers", Some(id), [user |-> owner])

\* FundAdmin's add view: user and fund_type are choice fields and fund_manager
\* a raw id field of the form.
AdminAddFund(w, r) == SubmitForm(w, "funds", None, r)

\* FundAdmin's change view.
AdminChangeFund(w, id, r) == SubmitForm(w, "funds", Some(id), r)

-----------------------------------------------------------------------------
(* SpecOwnership: accounts register and are removed; fund types, fund      *)
(* managers and funds are created, saved and deleted.                      *)

ActiveFundRows == {r \in FundRows : r.is_active}

InitOwnership == NoAccount /\ NoManaged /\ NoRSA /\ NoStore /\ NoCatalog

NextOwnership ==
    \/ \E u \in Accounts : Register(u)
    \/ \E u \in Accounts : DeleteAccount(u)
    \/ \E o \in {None} \cup {Some(u) : u \in Accounts} : CreateFundType(o)
    \/ \E id \in FundTypeIds, o \in {None} \cup {Some(u) : u \in Accounts} :
          SaveFundType(id, o)
    \/ \E id \in FundTypeIds : DeleteFundType(id)
    \/ \E u \in Accounts : CreateFundManager(u)
    \/ \E id \in FundManagerIds, u \in Accounts : SaveFundManager(id, u)
    \/ \E id \in FundManagerIds : DeleteFundManager(id)
    \/ \E r \in ActiveFundRows : AddFund(r)
    \/ \E id \in Funds, i \in FundManagerIds :
          ChangeFund(id, [db.funds[id] EXCEPT !.fund_manager = Some(i)])
    \/ \E id \in Funds : DeleteFund(id)

SpecOwnership == InitOwnership /\ [][NextOwnership]_vars

\* SpecLifecycle: accounts register and are removed; funds of the one
\* system-wide fund type are added, soft-disabled, enabled again and deleted,
\* through the ORM and in one session of FundAdmin.
LifecycleFundRows == {r \in FundRows : r.fund_type = 1 /\ r.fund_manager = None}

InitLifecycle ==
    /\ db = [EmptyDb EXCEPT !.fund_types = Put(<<>>, 1, [user |-> None])]
    /\ balances = [t \in BalanceTables |-> EmptyBag]
    /\ outcome = "none"
    /\ writer = [w \in {"w1"} |-> NoForm]
    /\ NoAccount /\ NoManaged /\ NoRSA

NextLifecycle ==
    \/ \E u \in Accounts : Register(u)
    \/ \E u \in Accounts : DeleteAccount(u)
    \/ \E r \in LifecycleFundRows : AddFund(r)
    \/ \E r \in LifecycleFundRows : AdminAddFund("w1", r)
    \/ \E id \in Funds, flag \in BOOLEAN :
          ChangeFund(id, [db.funds[id] EXCEPT !.is_active = flag])
    \/ \E id \in Funds, flag \in BOOLEAN :
          AdminChangeFund("w1", id, [db.funds[id] EXCEPT !.is_active = flag])
    \/ CommitForm("w1")
    \/ \E id \in Funds : DeleteFund(id)

SpecLifecycle == InitLifecycle /\ [][NextLifecycle]_vars

\* SpecCatalog: one account; fund types, fund managers and funds are added
\* and changed in one session of their admins while the account, the fund
\* types and the fund managers are deleted.
CatalogOwners == {None, Some("a")}
CatalogFundRows == {r \in FundRows : r.user = "a" /\ r.is_active}

InitCatalog ==
    /\ db = [EmptyDb EXCEPT !.accounts = {"a"}]
    /\ balances = [t \in BalanceTables |-> EmptyBag]
    /\ outcome = "none"
    /\ writer = [w \in {"w1"} |-> NoForm]
    /\ NoAccount /\ NoManaged /\ NoRSA

NextCatalog ==
    \/ \E o \in CatalogOwners : AddFundType("w1", o)
    \/ \E id \in FundTypeIds, o \in CatalogOwners : ChangeFundType("w1", id, o)
    \/ \E id \in FundTypeIds : DeleteFundType(id)
    \/ AddFundManager("w1", "a")
    \/ \E id \in FundManagerIds : ChangeFundManager("w1", id, "a")
    \/ \E id \in FundManagerIds : DeleteFundManager(id)
    \/ \E r \in CatalogFundRows : AdminAddFund("w1", r)
    \/ \E id \in Funds, m \in {None} \cup {Some(i) : i \in FundManagerIds} :
          AdminChangeFund("w1", id, [db.funds[id] EXCEPT !.fund_manager = m])
    \/ CommitForm("w1")
    \/ \E id \in Funds : DeleteFund(id)
    \/ DeleteAccount("a")

SpecCatalog == InitCatalog /\ [][NextCatalog]_vars

\* SpecUploads: account "a" owns fund 1; upload jobs are created, processed
\* and edited in the admin, and the fund and the account are deleted.
UploadUsers == {"a", "b"}
UploadFunds == {None, Some(1), Some(2)}
UploadForms == [user : UploadUsers, fund : UploadFunds \ {None}, status : UploadStatuses]

InitUploads ==
    /\ db = [EmptyDb EXCEPT
               !.accounts = {"a"},
               !.fund_types = Put(<<>>, 1, [user |-> None]),
               !.funds = Put(<<>>, 1, [user |-> "a", fund_type |-> 1,
                                       fund_manager |-> None, is_active |-> TRUE])]
    /\ balances = [t \in BalanceTables |-> EmptyBag]
    /\ outcome = "none"
    /\ writer = [w \in {"w1"} |-> NoForm]
    /\ NoAccount /\ NoManaged /\ NoRSA

NextUploads ==
    \/ \E u \in UploadUsers, f \in UploadFunds : CreateUpload(u, f)
    \/ \E id \in UploadIds : StartProcessing(id)
    \/ \E id \in UploadIds, s \in UploadStatuses : FinishProcessing(id, s)
    \/ \E r \in UploadForms : AdminAddUpload("w1", r)
    \/ \E id \in UploadIds, r \in UploadForms : AdminChangeUpload("w1", id, r)
    \/ CommitForm("w1")
    \/ \E id \in UploadIds : AdminDeleteUpload(id)
    \/ DeleteFund(1)
    \/ DeleteAccount("a")

SpecUploads == InitUploads /\ [][NextUploads]_vars

-----------------------------------------------------------------------------
(* SpecLedger: fund 1 has an RSAFund row and fund 2 a ManagedFund row;     *)
(* contributions and transactions are written through the ORM and through  *)
(* RSAContributionAdmin and ManagedFundTransactionAdmin.                   *)

LedgerContributions ==
    {r \in RSAContributionRows :
        /\ r.rsa_fund = 1 /\ r.contribution_date = 1
        /\ r.contribution_type = "EMPLOYEE" /\ r.nav_per_unit = 10000}
LedgerTransactions ==
    {r \in ManagedFundTransactionRows :
        /\ r.managed_fund = 2 /\ r.transaction_date = 1
        /\ r.transaction_type = "PURCHASE" /\ r.price_per_unit = 10000}

\* The rows the admin's forms post: a contribution of nothing and of one
\* cent, a transaction of one cent out and of one cent in.
LedgerContributionForms ==
    {r \in LedgerContributions : r.amount \in {0, 1} /\ r.units_purchased = 0}
LedgerTransactionForms ==
    {r \in LedgerTransactions : r.amount \in {-1, 1} /\ r.units = 0}

InitLedger ==
    /\ db = [EmptyDb EXCEPT
               !.accounts = {"a"},
               !.fund_types = Put(<<>>, 1, [user |-> None]),
               !.funds = [f \in {1, 2} |->
                            [user |-> "a", fund_type |-> 1, fund_manager |-> None,
                             is_active |-> TRUE]],
               !.rsa_funds = {1},
               !.managed_funds = {2}]
    /\ balances = [t \in BalanceTables |-> EmptyBag]
    /\ outcome = "none"
    /\ writer = [w \in {"w1"} |-> NoForm]
    /\ NoAccount /\ NoManaged /\ NoRSA

NextLedger ==
    \/ \E r \in LedgerContributions : CreateContribution(r)
    \/ \E id \in LogIds, r \in LedgerContributions : SaveContribution(id, r)
    \/ \E r \in LedgerContributionForms : AdminAddContribution("w1", r)
    \/ \E id \in LogIds, r \in LedgerContributionForms :
          AdminChangeContribution("w1", id, r)
    \/ \E id \in LogIds : DeleteContribution(id)
    \/ \E r \in LedgerTransactions : CreateTransaction(r)
    \/ \E id \in LogIds, r \in LedgerTransactions : ChangeTransaction(id, r)
    \/ \E r \in LedgerTransactionForms : AdminAddTransaction("w1", r)
    \/ \E id \in LogIds, r \in LedgerTransactionForms :
          AdminChangeTransaction("w1", id, r)
    \/ CommitForm("w1")
    \/ \E id \in LogIds : DeleteTransaction(id)
    \/ DeleteRSAFund(1)
    \/ DeleteManagedFund(2)

SpecLedger == InitLedger /\ [][NextLedger]_vars

-----------------------------------------------------------------------------
(* SpecAccounts: the users table under registrations and profile edits.    *)
(* Two sessions send requests; a request validates its data against the    *)
(* table and, in a later step, writes, so that the other session can act   *)
(* in between.                                                             *)

Usernames == {"ann", "bob"}
EmailAddresses == [local : {"a", "b"}, domain : {"x.com", "X.COM"}]
UserIds == 1..MaxRows
UserRows == [username : Usernames, email : EmailAddresses]

\* str.lower() of the domain part.
LowerCase(domain) == IF domain = "X.COM" THEN "x.com" ELSE domain

\* BaseUserManager.normalize_email, called by UserManager.create_user: the
\* domain part is lowercased, the local part kept.
normalize_email(e) == [e EXCEPT !.domain = LowerCase(@)]

\* The mutant of users_unique_fields: email left as AbstractUser declares it.
users_unique_fields_username_only == {"username"}

\* The unique columns of users: AbstractUser.username and the email override
\* with unique=True.
users_unique_fields == {"username", "email"}

\* Some row of users other than row `self` has one of the columns cols equal
\* to r's.
UsersConflict(users, r, self, cols) ==
    \E i \in DOMAIN users \ self : \E c \in cols : users[i][c] = r[c]

\* The UNIQUE constraints of the users table.
users_constraint_violated(users, r, self) ==
    UsersConflict(users, r, self, users_unique_fields)

\* UserRegistrationForm.clean_email: User.objects.filter(email=email).exists().
clean_email_fails(users, email) ==
    \E i \in DOMAIN users : users[i].email = email

IdleSession == [pc |-> "idle", id |-> None, row |-> None, result |-> ""]

SessionStep(w, s) ==
    /\ writer' = [writer EXCEPT ![w] = s]
    /\ UNCHANGED <<db, balances, outcome, accountVars, managedVars, rsaVars>>

\* UserRegistrationView.register: serializer.is_valid() runs the
\* UniqueValidators of the model's unique fields on the data as sent;
\* serializer.save() will call create_user, which normalizes the email.
SubmitApiRegistration(w, r) ==
    /\ writer[w].pc = "idle"
    /\ SessionStep(w,
          IF UsersConflict(db.users, r, {}, users_unique_fields)
          THEN [pc |-> "done", id |-> None, row |-> Some(r), result |-> "ValidationError"]
          ELSE [pc |-> "validated", id |-> None,
                row |-> Some([r EXCEPT !.email = normalize_email(@)]), result |-> ""])

\* UserRegistrationTemplateView: form.is_valid() runs clean_email and the
\* ModelForm's validate_unique; form.save() stores the data as cleaned.
SubmitFormRegistration(w, r) ==
    /\ writer[w].pc = "idle"
    /\ SessionStep(w,
          IF \/ clean_email_fails(db.users, r.email)
             \/ UsersConflict(db.users, r, {}, users_unique_fields)
          THEN [pc |-> "done", id |-> None, row |-> Some(r), result |-> "ValidationError"]
          ELSE [pc |-> "validated", id |-> None, row |-> Some(r), result |-> ""])

\* UserProfileViewSet.create (ModelViewSet, POST api/profile/):
\* serializer.is_valid() runs UserSerializer's UniqueValidators;
\* serializer.save() calls User.objects.create on the data as sent.
SubmitApiCreate(w, r) ==
    /\ writer[w].pc = "idle"
    /\ SessionStep(w,
          IF UsersConflict(db.users, r, {}, users_unique_fields)
          THEN [pc |-> "done", id |-> None, row |-> Some(r), result |-> "ValidationError"]
          ELSE [pc |-> "validated", id |-> None, row |-> Some(r), result |-> ""])

\* UserAdmin's add view: the form built on add_fieldsets carries username
\* and email, and its validate_unique looks for both; save_model stores
\* the data as cleaned.
SubmitAdminAddUser(w, r) ==
    /\ writer[w].pc = "idle"
    /\ SessionStep(w,
          IF UsersConflict(db.users, r, {}, users_unique_fields)
          THEN [pc |-> "done", id |-> None, row |-> Some(r), result |-> "ValidationError"]
          ELSE [pc |-> "validated", id |-> None, row |-> Some(r), result |-> ""])

\* UserProfileEditView: UserProfileForm carries email; validate_unique leaves
\* out the row being edited.
SubmitProfileEdit(w, id, email) ==
    /\ writer[w].pc = "idle"
    /\ id \in DOMAIN db.users
    /\ LET r == [db.users[id] EXCEPT !.email = email]
       IN SessionStep(w,
             IF UsersConflict(db.users, r, {id}, users_unique_fields \cap {"email"})
             THEN [pc |-> "done", id |-> Some(id), row |-> Some(r),
                   result |-> "ValidationError"]
             ELSE [pc |-> "validated", id |-> Some(id), row |-> Some(r), result |-> ""])

\* The INSERT or UPDATE of a validated request reaches the database.
CommitUser(w) ==
    /\ writer[w].pc = "validated"
    /\ LET r == Val(writer[w].row)
           self == IF writer[w].id = None THEN {} ELSE {Val(writer[w].id)}
       IN IF users_constraint_violated(db.users, r, self)
          THEN /\ db' = db
               /\ writer' = [writer EXCEPT ![w].pc = "done", ![w].result = "IntegrityError"]
          ELSE /\ self = {} => FreeIds(db.users, UserIds) # {}
               /\ db' = [db EXCEPT !.users =
                           Put(@, IF self = {} THEN NewId(@, UserIds)
                                  ELSE Val(writer[w].id), r)]
               /\ writer' = [writer EXCEPT ![w].pc = "done", ![w].result = "saved"]
    /\ UNCHANGED <<balances, outcome, accountVars, managedVars, rsaVars>>

\* The response is sent; the session can send another request.
Respond(w) ==
    /\ writer[w].pc = "done"
    /\ SessionStep(w, IdleSession)

InitAccounts ==
    /\ db = EmptyDb
    /\ balances = [t \in BalanceTables |-> EmptyBag]
    /\ outcome = "none"
    /\ writer = [w \in Writers |-> IdleSession]
    /\ NoAccount /\ NoManaged /\ NoRSA

NextAccounts ==
    \/ \E w \in Writers, r \in UserRows : SubmitApiRegistration(w, r)
    \/ \E w \in Writers, r \in UserRows : SubmitFormRegistration(w, r)
    \/ \E w \in Writers, r \in UserRows : SubmitApiCreate(w, r)
    \/ \E w \in Writers, r \in UserRows : SubmitAdminAddUser(w, r)
    \/ \E w \in Writers, id \in UserIds, e \in EmailAddresses : SubmitProfileEdit(w, id, e)
    \/ \E w \in Writers : CommitUser(w)
    \/ \E w \in Writers : Respond(w)

SpecAccounts == InitAccounts /\ [][NextAccounts]_vars

-----------------------------------------------------------------------------
(* SpecPrivileges: the requests an account holder can send, each carrying  *)
(* whatever keys the sender chooses, on an account whose premium and       *)
(* verification fields the admin may have set before.                      *)

\* The columns only the admin writes.
PrivilegeFields == {"is_premium", "premium_expires_at", "is_email_verified"}

\* The mutant of UserProfileSerializer_fields: the update serializer built
\* on all the writable columns of the model.
UserProfileSerializer_fields_with_privileges ==
    {"first_name", "last_name", "phone_number", "currency", "timezone",
     "date_of_birth", "bio", "is_premium", "premium_expires_at", "is_email_verified"}

\* UserProfileSerializer.Meta.fields
UserProfileSerializer_fields ==
    {"first_name", "last_name", "phone_number", "currency", "timezone",
     "date_of_birth", "bio"}

\* The fields of UserSerializer that a request can set: Meta.fields without
\* Meta.read_only_fields.
UserSerializer_fields ==
    {"username", "email", "first_name", "last_name", "phone_number", "profile_picture",
     "currency", "timezone", "date_of_birth", "bio"}

\* UserProfileForm.Meta.fields
UserProfileForm_fields ==
    {"first_name", "last_name", "email", "phone_number", "currency", "timezone",
     "date_of_birth", "bio"}

\* UserRegistrationSerializer.Meta.fields and UserRegistrationForm.Meta.fields,
\* as far as they are columns of the row: username and the password
\* confirmation are not.
Registration_fields == {"email", "first_name", "last_name", "password"}

\* A serializer's validated_data and a form's cleaned_data hold the declared
\* fields only: the other keys of the request are dropped.
Declared(fields, data) == [k \in DOMAIN data \cap fields |-> data[k]]

\* User(**validated_data): the columns given, the others at their defaults.
CreatedUser(data) ==
    [k \in DOMAIN NewUser |-> IF k \in DOMAIN data THEN data[k] ELSE NewUser[k]]

\* UserRegistrationView.register and UserRegistrationTemplateView with valid
\* data: serializer.save() / form.save() create the account.
RegisterRequest(data) ==
    /\ user' = CreatedUser(Declared(Registration_fields, data))
    /\ outcome' = "registered"
    /\ UNCHANGED <<now, premium_shown, profile_completion, balances, writer>>
    /\ UNCHANGED <<managedVars, rsaVars, catalogVars>>

\* UserProfileViewSet.create (ModelViewSet, POST api/profile/) with valid
\* data: UserSerializer's save() creates an account, without a password.
CreateRequest(data) ==
    /\ user' = CreatedUser(Declared(UserSerializer_fields, data))
    /\ outcome' = "created"
    /\ UNCHANGED <<now, premium_shown, profile_completion, balances, writer>>
    /\ UNCHANGED <<managedVars, rsaVars, catalogVars>>

\* UserProfileViewSet.update on the request's data (PUT and PATCH).
ApiUpdateRequest(data) == ApiUpdateProfile(Declared(UserProfileSerializer_fields, data))

\* UserProfileEditView on the POSTed data.
EditRequest(data) ==
    /\ UserProfileForm_fields \subseteq DOMAIN data
    /\ EditProfile(Declared(UserProfileForm_fields, data))

\* change_password_view with a valid ChangePasswordForm: form.save() sets the
\* password.
FormChangePassword(new) ==
    /\ user' = [user EXCEPT !.password = new]
    /\ UNCHANGED <<now, premium_shown, profile_completion>>
    /\ UNCHANGED <<managedVars, rsaVars, storeVars, catalogVars>>

Passwords == {"secret", "changed"}

\* The privileged values a request can ask for.
PrivilegeData ==
    UNION {[ks -> {TRUE}] : ks \in SUBSET {"is_premium", "is_email_verified"}}
    \cup {[k \in {"is_premium", "premium_expires_at"} |->
              IF k = "is_premium" THEN TRUE ELSE None],
          [k \in {"premium_expires_at"} |-> Some(MaxTime)]}

\* f with the keys of g added or replaced.
Merged(f, g) ==
    [k \in DOMAIN f \cup DOMAIN g |-> IF k \in DOMAIN g THEN g[k] ELSE f[k]]

RegistrationData ==
    [email : Emails \ {""}, first_name : Names, last_name : {"Ada"}, password : {"secret"}]

ProfileData == [first_name : Names, bio : Bios]

EditData ==
    [first_name : Names, last_name : {"Ada"}, email : Emails \ {""},
     phone_number : {None}, currency : {"USD"}, timezone : {"UTC"},
     date_of_birth : {None}, bio : Bios]

InitPrivileges ==
    /\ now = 0
    /\ \E p, v \in BOOLEAN, e \in {None} \cup {Some(t) : t \in Times} :
          user = [NewUser EXCEPT !.is_premium = p, !.premium_expires_at = e,
                                 !.is_email_verified = v, !.password = "secret"]
    /\ premium_shown = None
    /\ profile_completion = None
    /\ NoManaged /\ NoRSA /\ NoStore /\ NoCatalog

\* The account the specification follows is the one created last; it is
\* created when no request of the account followed before is in progress.
NextPrivileges ==
    \/ Tick
    \/ \E d \in RegistrationData, x \in PrivilegeData :
          writer = None /\ RegisterRequest(Merged(d, x))
    \/ \E d \in RegistrationData, x \in PrivilegeData :
          writer = None /\ CreateRequest(Merged(d, x))
    \/ \E d \in ProfileData, x \in PrivilegeData : ApiUpdateRequest(Merged(d, x))
    \/ \E d \in EditData, x \in PrivilegeData : EditRequest(Merged(d, x))
    \/ \E file \in {Val(x) : x \in Pictures \ {None}} : ApiUploadPicture(file)
    \/ ApiUploadPictureCommit
    \/ ApiDeletePicture
    \/ \E new \in Passwords : FormChangePassword(new)

SpecPrivileges == InitPrivileges /\ [][NextPrivileges]_vars

-----------------------------------------------------------------------------
(* Requests of authenticated accounts.  A row of users carries the columns *)
(* these requests read and write; the response of the last request is kept *)
(* in `outcome`: who sent it, its status, its message or error, and the    *)
(* account and the token in its body.                                      *)

AccountIds == {1, 2}
AnnEmail == [local |-> "a", domain |-> "x.com"]
BobEmail == [local |-> "b", domain |-> "x.com"]
Anonymous == 0

\* A row as registration creates it.
AccountRow(username, email, password) ==
    [username |-> username, email |-> email, password |-> password,
     first_name |-> "", profile_picture |-> None,
     is_active |-> TRUE, last_login_ip |-> None]

Response(requester, status, detail, account, token) ==
    [requester |-> requester, status |-> status, detail |-> detail, user |-> account,
     token |-> token]

NoResponse == Response(Anonymous, 0, "", None, None)

\* The request is answered and the tables become d.
Respond2(d, r) ==
    /\ db' = d
    /\ outcome' = r
    /\ UNCHANGED <<balances, writer, accountVars, managedVars, rsaVars>>

\* IsAuthenticated, login_required: the requester is an account that can
\* authenticate.
Authenticated(u) == u \in DOMAIN db.users /\ db.users[u].is_active

\* The mutant of get_object: the row is looked up by the id in the URL.
get_object_from_url(u, pk) == pk

\* UserProfileViewSet.get_object, UserProfileEditView.get_object:
\* self.request.user, whatever pk the URL carries.
get_object(u, pk) == u

\* ImageField(upload_to='profile_pictures/'): the names a file can be stored
\* under.
upload_to(files, f) == get_available_name(files, "profile_pictures/", f)

\* FieldFile.delete(): the file leaves the storage.
WithoutFile(files, picture) ==
    IF TruthyOpt(picture) THEN files \ {Val(picture)} ELSE files

\* UserProfileViewSet.list
ApiList(u) ==
    /\ Authenticated(u)
    /\ Respond2(db, Response(u, 200, "", Some(db.users[u]), None))

\* UserProfileViewSet.retrieve (ModelViewSet): the row get_object returns.
ApiRetrieve(u, pk) ==
    /\ Authenticated(u)
    /\ IF get_object(u, pk) \notin DOMAIN db.users
       THEN Respond2(db, Response(u, 404, "Not found.", None, None))
       ELSE Respond2(db, Response(u, 200, "", Some(db.users[get_object(u, pk)]), None))

\* UserProfileViewSet.update: serializer.save() on get_object().
ApiUpdate(u, pk, data) ==
    /\ Authenticated(u)
    /\ LET id == get_object(u, pk)
           valid == Declared(UserProfileSerializer_fields, data)
       IN IF id \notin DOMAIN db.users
          THEN Respond2(db, Response(u, 404, "Not found.", None, None))
          ELSE LET row == [k \in DOMAIN db.users[id] |->
                             IF k \in DOMAIN valid THEN valid[k] ELSE db.users[id][k]]
               IN Respond2([db EXCEPT !.users = Put(@, id, row)],
                           Response(u, 200, "Profile updated successfully", Some(row), None))

\* UserProfileViewSet.destroy (ModelViewSet): get_object().delete().  The
\* collector raises ProtectedError, which no handler of the API catches,
\* when a fund names one of the account's fund types; otherwise the account
\* goes with its token (Token.user is on_delete=CASCADE) and with the rows
\* of the budgets tables that name it, the funds that named its fund
\* managers keeping a cleared fund_manager.  The picture file stays in the
\* storage.
ApiDestroy(u, pk) ==
    /\ Authenticated(u)
    /\ LET id == get_object(u, pk)
       IN IF id \notin DOMAIN db.users
          THEN Respond2(db, Response(u, 404, "Not found.", None, None))
          ELSE IF fund_type_protected(db, OwnedBy(db.fund_types, Some(id)))
          THEN Respond2(db, Response(u, 500, "ProtectedError", None, None))
          ELSE /\ db' = [WithoutOwnedRows(db, id) EXCEPT
                            !.users = Drop(@, id),
                            !.authtoken_token = {t \in @ : t.user # id}]
               /\ balances' = BalancesWithoutOwned(db, balances, id)
               /\ outcome' = Response(u, 204, "", None, None)
               /\ UNCHANGED <<writer, accountVars, managedVars, rsaVars>>

\* The row User.objects.create(**validated_data) inserts: the columns the
\* request sets, the password '' (no set_password), the email as sent.
CreatedAccount(data) ==
    LET row == AccountRow(data.username, data.email, "")
    IN [k \in DOMAIN row |->
          IF k \in DOMAIN data \cap UserSerializer_fields THEN data[k] ELSE row[k]]

\* UserProfileViewSet.create (ModelViewSet; 'post' is among
\* http_method_names), up to serializer.is_valid(): username and email are
\* required and the UniqueValidators of the two columns look for a row with
\* the value sent.  Valid data await serializer.save().
ApiCreate(u, data) ==
    /\ Authenticated(u)
    /\ u \in DOMAIN writer
    /\ writer[u] = None
    /\ IF \/ ~({"username", "email"} \subseteq DOMAIN data)
          \/ UsersConflict(db.users, data, {}, users_unique_fields)
       THEN Respond2(db, Response(u, 400, "invalid", None, None))
       ELSE /\ writer' = [writer EXCEPT ![u] =
                            Some([view |-> "create", row |-> CreatedAccount(data)])]
            /\ UNCHANGED <<db, balances, outcome, accountVars, managedVars, rsaVars>>

\* UserProfileViewSet.create from perform_create(): serializer.save() INSERTs
\* the row, under the UNIQUE constraints of the table as it is now; the
\* response carries the account created and no token is made.
ApiCreateSave(u, ids) ==
    /\ u \in DOMAIN writer
    /\ writer[u] # None
    /\ Val(writer[u]).view = "create"
    /\ LET row == Val(writer[u]).row
       IN IF users_constraint_violated(db.users, row, {})
          THEN /\ db' = db
               /\ outcome' = Response(u, 500, "IntegrityError", None, None)
          ELSE /\ FreeIds(db.users, ids) # {}
               /\ db' = [db EXCEPT !.users = Put(@, NewId(@, ids), row)]
               /\ outcome' = Response(u, 201, "", Some(row), None)
    /\ writer' = [writer EXCEPT ![u] = None]
    /\ UNCHANGED <<balances, accountVars, managedVars, rsaVars>>

\* UserProfileViewSet.upload_picture up to user.profile_picture.delete();
\* upload is None when the request has no file.  delete() of the picture
\* the account has removes the file from the storage and saves the row with
\* the column cleared (FieldFile.delete, save=True); the request then holds
\* the row as it has it in memory, and the upload.
ApiUploadPictureBy(u, upload) ==
    /\ Authenticated(u)
    /\ u \in DOMAIN writer
    /\ writer[u] = None
    /\ IF upload = None
       THEN Respond2(db, Response(u, 400, "No image file provided", None, None))
       ELSE LET old == db.users[u].profile_picture
                row == IF TruthyOpt(old) THEN [db.users[u] EXCEPT !.profile_picture = None]
                       ELSE db.users[u]
            IN /\ db' = IF TruthyOpt(old)
                        THEN [db EXCEPT !.users = Put(@, u, row),
                                        !.media = WithoutFile(@, old)]
                        ELSE db
               /\ writer' = [writer EXCEPT ![u] =
                               Some([view |-> "upload", row |-> row, upload |-> Val(upload)])]
               /\ UNCHANGED <<balances, outcome, accountVars, managedVars, rsaVars>>

\* UserProfileViewSet.upload_picture from user.profile_picture = ... on:
\* user.save() stores the upload under an available name (pre_save) and
\* writes every column of the row the request holds, an INSERT when the row
\* has been deleted since, under the UNIQUE constraints of the table as it
\* is now.  The body of the response is the message and the URL of the
\* picture; it carries no account.
ApiUploadPictureSave(u) ==
    /\ u \in DOMAIN writer
    /\ writer[u] # None
    /\ Val(writer[u]).view = "upload"
    /\ Cardinality(db.media) < MaxFiles
    /\ \E name \in upload_to(db.media, Val(writer[u]).upload) :
          LET row == [Val(writer[u]).row EXCEPT !.profile_picture = Some(name)]
          IN IF users_constraint_violated(db.users, row, {u})
             THEN /\ db' = [db EXCEPT !.media = @ \cup {name}]
                  /\ outcome' = Response(u, 500, "IntegrityError", None, None)
             ELSE /\ db' = [db EXCEPT !.users = Put(@, u, row), !.media = @ \cup {name}]
                  /\ outcome' = [requester |-> u, status |-> 200,
                                 detail |-> "Profile picture uploaded successfully",
                                 user |-> None, token |-> None,
                                 profile_picture |-> name]
    /\ writer' = [writer EXCEPT ![u] = None]
    /\ UNCHANGED <<balances, accountVars, managedVars, rsaVars>>

\* UserProfileViewSet.delete_picture
DeletePictureBy(u) ==
    /\ Authenticated(u)
    /\ LET old == db.users[u].profile_picture
           row == [db.users[u] EXCEPT !.profile_picture = None]
       IN IF TruthyOpt(old)
          THEN Respond2([db EXCEPT !.users = Put(@, u, row),
                                   !.media = WithoutFile(@, old)],
                        Response(u, 200, "Profile picture deleted successfully", None, None))
          ELSE Respond2(db, Response(u, 400, "No profile picture to delete", None, None))

\* delete_profile_picture_view on a POST: the outcome is a message on the
\* page the view redirects to.
FormDeletePictureBy(u) ==
    /\ Authenticated(u)
    /\ LET old == db.users[u].profile_picture
           row == [db.users[u] EXCEPT !.profile_picture = None]
       IN IF TruthyOpt(old)
          THEN Respond2([db EXCEPT !.users = Put(@, u, row),
                                   !.media = WithoutFile(@, old)],
                        Response(u, 302, "Profile picture deleted successfully!", None, None))
          ELSE Respond2(db, Response(u, 302, "No profile picture to delete.", None, None))

\* upload_profile_picture_view with a valid form.  is_valid() has already
\* assigned the upload to request.user.profile_picture, so the delete() meant
\* for the old picture acts on the upload (by its own name, not yet stored)
\* and saves the row with the column cleared; form.save() then has no file
\* to store.  Without an upload the column still holds the old picture.
FormUploadPictureBy(u, upload) ==
    /\ Authenticated(u)
    /\ LET old == db.users[u].profile_picture
           assigned == IF upload = None THEN old ELSE Some(FileName(Val(upload)))
           row == [db.users[u] EXCEPT !.profile_picture = None]
       IN IF TruthyOpt(assigned)
          THEN Respond2([db EXCEPT !.users = Put(@, u, row),
                                   !.media = WithoutFile(@, assigned)],
                        Response(u, 302, "Profile picture updated successfully!",
                                 Some(row), None))
          ELSE Respond2(db, Response(u, 302, "Profile picture updated successfully!",
                                      Some(db.users[u]), None))

\* User.check_password: the raw password against the stored one; None never
\* matches, and nothing matches a row without a usable password.
check_password(row, raw) ==
    /\ raw # None
    /\ row.password \notin {"", "!unusable"}
    /\ Val(raw) = row.password

\* change_password_view: PasswordChangeForm checks old_password and that the
\* two new passwords agree, then form.save() sets the password.
FormChangePasswordBy(u, data) ==
    /\ Authenticated(u)
    /\ IF /\ check_password(db.users[u], Some(data.old_password))
          /\ data.new_password1 = data.new_password2
       THEN LET row == [db.users[u] EXCEPT !.password = data.new_password1]
            IN Respond2([db EXCEPT !.users = Put(@, u, row)],
                        Response(u, 302, "Your password was successfully updated!",
                                 Some(row), None))
       ELSE Respond2(db, Response(u, 200, "Please correct the errors below.", None, None))

\* The fields of UserProfileForm that a POST must carry: the columns declared
\* without blank=True.
UserProfileForm_required == {"email", "currency", "timezone"}

\* What a field of UserProfileForm that the POST leaves out is cleaned to: None
\* for the nullable columns, '' for the others.
Blank(k) == IF k \in {"phone_number", "date_of_birth"} THEN None ELSE ""

\* construct_instance: request.user with every field of the form set from
\* cleaned_data; the other columns are as they were loaded.
EditedUser(row, data) ==
    [k \in DOMAIN row |->
        IF k \notin UserProfileForm_fields THEN row[k]
        ELSE IF k \in DOMAIN data THEN data[k] ELSE Blank(k)]

\* UserProfileEditView, up to form.is_valid(): a required field is missing or
\* the email is another account's, and the form is shown again; otherwise
\* the edited instance awaits form.save().
SubmitEditProfileBy(u, data) ==
    /\ Authenticated(u)
    /\ u \in DOMAIN writer
    /\ writer[u] = None
    /\ LET row == EditedUser(db.users[u], data)
       IN IF \/ ~(UserProfileForm_required \subseteq DOMAIN data)
             \/ UsersConflict(db.users, row, {u}, {"email"})
          THEN Respond2(db, Response(u, 200, "Please correct the errors below.", None, None))
          ELSE /\ writer' = [writer EXCEPT ![u] = Some([view |-> "edit", row |-> row])]
               /\ UNCHANGED <<db, balances, outcome, accountVars, managedVars, rsaVars>>

\* UserProfileEditView.form_valid: form.save() writes every column of the
\* instance, an INSERT when the row has been deleted since the request
\* loaded it; the UNIQUE constraints are those of the table as it is now.
CommitEditProfileBy(u) ==
    /\ u \in DOMAIN writer
    /\ writer[u] # None
    /\ Val(writer[u]).view = "edit"
    /\ LET row == Val(writer[u]).row
       IN IF users_constraint_violated(db.users, row, {u})
          THEN /\ db' = db
               /\ outcome' = Response(u, 500, "IntegrityError", None, None)
          ELSE /\ db' = [db EXCEPT !.users = Put(@, u, row)]
               /\ outcome' = Response(u, 302, "Profile updated successfully!",
                                      Some(row), None)
    /\ writer' = [writer EXCEPT ![u] = None]
    /\ UNCHANGED <<balances, accountVars, managedVars, rsaVars>>

TokensOf(d, u) == {t \in d.authtoken_token : t.user = u}

\* Token.objects.create(user=u): a row with a newly generated key.  (A
\* generated key is taken to differ from every key generated before.)
\* Token.user is a OneToOneField: a second row for the account violates its
\* UNIQUE constraint.
TokenCreate(d, u) ==
    IF TokensOf(d, u) # {} THEN Raise("IntegrityError")
    ELSE [d EXCEPT !.keys_generated = @ + 1,
                   !.authtoken_token = @ \cup {[key |-> d.keys_generated + 1, user |-> u]}]

\* Token.objects.get_or_create(user=u)
TokenGetOrCreate(d, u) == IF TokensOf(d, u) # {} THEN d ELSE TokenCreate(d, u)

\* Token.objects.filter(user=u).delete()
TokenDelete(d, u) == [d EXCEPT !.authtoken_token = @ \ TokensOf(d, u)]

\* The key of u's token in d.
TokenKey(d, u) == (CHOOSE t \in TokensOf(d, u) : TRUE).key

\* dict.get: the value under key k, None when absent.
Get(data, k) == IF k \in DOMAIN data THEN Some(data[k]) ELSE None

\* What the view takes serializer.data to hold: the three fields, as if
\* declared without write_only.
ChangePasswordSerializer_fields_readable ==
    {"old_password", "new_password", "new_password_confirm"}

\* The fields of ChangePasswordSerializer that serializer.data holds: a
\* serializer's data is the representation of the validated data, which
\* leaves out the fields declared write_only=True, and all three are.
ChangePasswordSerializer_readable_fields == {}

\* The mutant of check_old_password: the old password is not checked.
check_old_password_skipped(row, raw) == TRUE

\* user.check_password(serializer.data.get('old_password'))
check_old_password(row, raw) == check_password(row, raw)

\* UserProfileViewSet.change_password.  set_password(None) stores an unusable
\* password, which no raw password matches.  The password and the deletion
\* of the token are committed when Token.objects.create is reached.
ApiChangePassword(u, data) ==
    /\ Authenticated(u)
    /\ LET serializer_data == Declared(ChangePasswordSerializer_readable_fields, data)
           new == Get(serializer_data, "new_password")
           row == [db.users[u] EXCEPT
                     !.password = IF new = None THEN "!unusable" ELSE Val(new)]
           deleted == TokenDelete([db EXCEPT !.users = Put(@, u, row)], u)
           d == TokenCreate(deleted, u)
       IN IF data.new_password # data.new_password_confirm
          THEN Respond2(db, Response(u, 400, "Password fields didn't match.", None, None))
          ELSE IF ~check_old_password(db.users[u], Get(serializer_data, "old_password"))
          THEN Respond2(db, Response(u, 400, "Wrong password", None, None))
          ELSE IF Raised(d)
          THEN Respond2(deleted, Response(u, 500, d.raised, None, None))
          ELSE /\ db.keys_generated < MaxKeys
               /\ Respond2(d, Response(u, 200, "Password changed successfully", None,
                                    Some(TokenKey(d, u))))

-----------------------------------------------------------------------------
(* SpecRequests: of two accounts one sends profile requests, with any id in *)
(* the URL, and creates accounts.  Both accounts own funds.                *)

UrlIds == AccountIds \cup {3}
FirstNames == {"", "Ada"}
AdaPng == [root |-> "ada", ext |-> ".png"]
Uploads == {None, Some(AdaPng)}
ApiPasswordData ==
    [old_password : Passwords, new_password : {"changed"},
     new_password_confirm : Passwords]
FormPasswordData ==
    [old_password : Passwords, new_password1 : {"changed"}, new_password2 : Passwords]

\* The account that sends the requests of SpecRequests; the other account
\* is there to be named in the URL.
Requesters == {1}

\* An email of no account, and the POSTs to api/profile/: a new username
\* and email with keys the serializer does not take, the username of an
\* account, and no username.
CatEmail == [local |-> "c", domain |-> "x.com"]
CreatePosts ==
    {[username |-> "cat", email |-> CatEmail, first_name |-> "Ada",
      password |-> "secret", is_active |-> FALSE],
     [username |-> "bob", email |-> CatEmail],
     [email |-> CatEmail]}

\* The POSTs of the profile edit form: complete, without first_name, and
\* without the required currency and timezone.
EditPosts ==
    [first_name : {"Ada"}, email : {AnnEmail, BobEmail}, currency : {"USD"},
     timezone : {"UTC"}]
    \cup [email : {AnnEmail, BobEmail}, currency : {"USD"}, timezone : {"UTC"}]
    \cup [first_name : {"Ada"}, email : {AnnEmail}]

\* The rows of the budgets tables name the accounts by their ids.  Ann owns
\* fund type 1, fund manager 1 and fund 1; fund type 2 is system-wide; Bob
\* owns fund 2, for which FundAdmin's form let him choose Ann's fund
\* manager and either fund type.
InitRequests ==
    /\ \E ft \in FundTypeIds :
          db = [EmptyDb EXCEPT
                  !.users = Put(Put(<<>>, 1, AccountRow("ann", AnnEmail, "secret")),
                                2, AccountRow("bob", BobEmail, "secret")),
                  !.authtoken_token = {[key |-> 1, user |-> 1], [key |-> 2, user |-> 2]},
                  !.keys_generated = 2,
                  !.fund_types = Put(Put(<<>>, 1, [user |-> Some(1)]), 2, [user |-> None]),
                  !.fund_managers = Put(<<>>, 1, [user |-> 1]),
                  !.funds = Put(Put(<<>>, 1, [user |-> 1, fund_type |-> 2,
                                              fund_manager |-> Some(1), is_active |-> TRUE]),
                                2, [user |-> 2, fund_type |-> ft,
                                    fund_manager |-> Some(1), is_active |-> TRUE])]
    /\ balances = [t \in BalanceTables |-> EmptyBag]
    /\ outcome = NoResponse
    /\ writer = [u \in Requesters |-> None]
    /\ NoAccount /\ NoManaged /\ NoRSA

NextRequests ==
    \/ \E u \in Requesters : ApiList(u)
    \/ \E u \in Requesters, pk \in UrlIds : ApiRetrieve(u, pk)
    \/ \E u \in Requesters, pk \in UrlIds, n \in FirstNames :
          ApiUpdate(u, pk, [first_name |-> n])
    \/ \E u \in Requesters, pk \in UrlIds : ApiDestroy(u, pk)
    \/ \E u \in Requesters, data \in ApiPasswordData : ApiChangePassword(u, data)
    \/ \E u \in Requesters, f \in Uploads : ApiUploadPictureBy(u, f)
    \/ \E u \in Requesters : ApiUploadPictureSave(u)
    \/ \E u \in Requesters : DeletePictureBy(u)
    \/ \E u \in Requesters : FormDeletePictureBy(u)
    \/ \E u \in Requesters, f \in Uploads : FormUploadPictureBy(u, f)
    \/ \E u \in Requesters, data \in FormPasswordData : FormChangePasswordBy(u, data)
    \/ \E u \in Requesters, data \in EditPosts : SubmitEditProfileBy(u, data)
    \/ \E u \in Requesters : CommitEditProfileBy(u)
    \/ \E u \in Requesters, data \in CreatePosts : ApiCreate(u, data)
    \/ \E u \in Requesters : ApiCreateSave(u, UrlIds \ AccountIds)

SpecRequests == InitRequests /\ [][NextRequests]_vars

\* SpecEdits: both accounts edit their profiles, change their passwords and
\* delete themselves, a request of one between the two steps of the other's
\* edit.
InitEdits ==
    /\ db = [EmptyDb EXCEPT
               !.users = Put(Put(<<>>, 1, AccountRow("ann", AnnEmail, "secret")),
                             2, AccountRow("bob", BobEmail, "secret"))]
    /\ balances = [t \in BalanceTables |-> EmptyBag]
    /\ outcome = NoResponse
    /\ writer = [u \in AccountIds |-> None]
    /\ NoAccount /\ NoManaged /\ NoRSA

NextEdits ==
    \/ \E u \in AccountIds, data \in EditPosts : SubmitEditProfileBy(u, data)
    \/ \E u \in AccountIds : CommitEditProfileBy(u)
    \/ \E u \in AccountIds, data \in FormPasswordData : FormChangePasswordBy(u, data)
    \/ \E u \in AccountIds : ApiDestroy(u, u)

SpecEdits == InitEdits /\ [][NextEdits]_vars

-----------------------------------------------------------------------------
(* SpecTokens: accounts register, log in and out through the API and the   *)
(* login page, change their password and delete themselves; the admin      *)
(* activates and deactivates them.  One session sends the requests that    *)
(* take more than one statement (registration, login), and the other        *)
(* requests come between its statements.                                   *)

\* An email field sent empty, and an email of no account.
EmptyEmail == [local |-> "", domain |-> ""]
EveEmail == [local |-> "e", domain |-> "x.com"]

\* ModelBackend.authenticate(username=..., password=...): the account of that
\* username when the password matches and the account is active.
authenticate(users, username, password) ==
    LET found == {i \in DOMAIN users :
                     /\ Some(users[i].username) = username
                     /\ check_password(users[i], password)
                     /\ users[i].is_active}
    IN IF found = {} THEN None ELSE Some(CHOOSE i \in found : TRUE)

\* The mutant of login_user: the username is tried when the email names no
\* account.
login_user_falling_back(users, data) ==
    LET byEmail == {i \in DOMAIN users : Some(users[i].email) = data.email}
        first == IF byEmail = {} THEN None
                 ELSE authenticate(users, Some(users[CHOOSE i \in byEmail : TRUE].username),
                                   data.password)
    IN IF first # None THEN first
       ELSE authenticate(users, data.username, data.password)

\* The account UserLoginView.post authenticates: by email when the request
\* has a non-empty one (User.objects.get(email=email), then that account's
\* username), otherwise by username when it has one.
login_user(users, data) ==
    LET byEmail == {i \in DOMAIN users : Some(users[i].email) = data.email}
    IN IF data.email # None /\ data.email # Some(EmptyEmail)
       THEN IF byEmail = {} THEN None
            ELSE authenticate(users, Some(users[CHOOSE i \in byEmail : TRUE].username),
                              data.password)
       ELSE IF data.username # None /\ data.username # Some("")
       THEN authenticate(users, data.username, data.password)
       ELSE None

\* A request in progress: the account it has authenticated or created, the
\* row it holds in memory, the client's address and the token's key.
NoRequest == [pc |-> "idle", user |-> None, row |-> None, ip |-> None, token |-> None]

\* The accounts that requests in progress hold.  The database gives a new
\* row a key that no row has had, so an account registered meanwhile does
\* not get the id of an account a request holds, deleted or not.
HeldAccounts == {Val(writer[s].user) : s \in {x \in DOMAIN writer : writer[x].user # None}}

RequestStep(s, r) ==
    /\ writer' = [writer EXCEPT ![s] = r]
    /\ UNCHANGED <<db, balances, outcome, accountVars, managedVars, rsaVars>>

\* The request of session s is answered and the tables become d.
Answer(s, d, r) ==
    /\ db' = d
    /\ outcome' = r
    /\ writer' = [writer EXCEPT ![s] = NoRequest]
    /\ UNCHANGED <<balances, accountVars, managedVars, rsaVars>>

\* UserLoginView.post up to authenticate(): without an account the answer is
\* 401; with one, the view goes on to the token.
ApiLogin(s, data, ip) ==
    /\ writer[s].pc = "idle"
    /\ LET found == login_user(db.users, data)
       IN IF found = None
          THEN Answer(s, db, Response(Anonymous, 401, "Invalid credentials", None, None))
          ELSE RequestStep(s, [NoRequest EXCEPT !.pc = "authenticated", !.user = found,
                                                !.row = Some(db.users[Val(found)]),
                                                !.ip = Some(ip)])

\* UserLoginView.post, Token.objects.get_or_create(user=user): the account's
\* token, a new one when it has none.  The INSERT for an account deleted
\* since authenticate() violates the FOREIGN KEY of Token.user.
ApiLoginToken(s) ==
    /\ writer[s].pc = "authenticated"
    /\ LET u == Val(writer[s].user)
       IN IF u \notin DOMAIN db.users
          THEN Answer(s, db, Response(Anonymous, 500, "IntegrityError", None, None))
          ELSE /\ TokensOf(db, u) = {} => db.keys_generated < MaxKeys
               /\ LET d == TokenGetOrCreate(db, u)
                  IN /\ db' = d
                     /\ writer' = [writer EXCEPT ![s].pc = "token",
                                                 ![s].token = Some(TokenKey(d, u))]
                     /\ UNCHANGED <<balances, outcome, accountVars, managedVars, rsaVars>>

\* UserLoginView.post, user.save(update_fields=['last_login_ip',
\* 'last_login']) and the response: the UPDATE writes these columns only,
\* and raises DatabaseError when it finds no row; the response carries the
\* key get_or_create returned and the account as the view holds it.
ApiLoginSave(s) ==
    /\ writer[s].pc = "token"
    /\ LET u == Val(writer[s].user)
           held == [Val(writer[s].row) EXCEPT !.last_login_ip = writer[s].ip]
       IN IF u \notin DOMAIN db.users
          THEN Answer(s, db, Response(Anonymous, 500, "DatabaseError", None, None))
          ELSE Answer(s, [db EXCEPT !.users[u].last_login_ip = writer[s].ip],
                      Response(Anonymous, 200, "Login successful", Some(held),
                               writer[s].token))

\* UserLoginTemplateView up to form.is_valid(): AuthenticationForm.clean()
\* authenticates the username and the password; the form is shown again
\* when it finds no account.
FormLogin(s, data, ip) ==
    /\ writer[s].pc = "idle"
    /\ LET found == authenticate(db.users, data.username, data.password)
       IN IF found = None
          THEN Answer(s, db, Response(Anonymous, 200, "Invalid username or password.",
                                      None, None))
          ELSE RequestStep(s, [NoRequest EXCEPT !.pc = "logged_in", !.user = found,
                                                !.row = Some(db.users[Val(found)]),
                                                !.ip = Some(ip)])

\* UserLoginTemplateView.form_valid: the session is logged in and
\* request.user.save(update_fields=['last_login_ip']) records the address;
\* no token is made.  The UPDATE raises DatabaseError when it finds no row.
FormLoginSave(s) ==
    /\ writer[s].pc = "logged_in"
    /\ LET u == Val(writer[s].user)
           held == [Val(writer[s].row) EXCEPT !.last_login_ip = writer[s].ip]
       IN IF u \notin DOMAIN db.users
          THEN Answer(s, db, Response(Anonymous, 500, "DatabaseError", None, None))
          ELSE Answer(s, [db EXCEPT !.users[u].last_login_ip = writer[s].ip],
                      Response(u, 302, "Welcome back", Some(held), None))

\* UserRegistrationView.register up to serializer.is_valid(): the
\* UniqueValidators of username and email on the data as sent, and
\* validate(); valid data await serializer.save().
ApiRegister(s, data) ==
    /\ writer[s].pc = "idle"
    /\ IF \/ UsersConflict(db.users, data, {}, users_unique_fields)
          \/ data.password # data.password_confirm
       THEN Answer(s, db, Response(Anonymous, 400, "invalid", None, None))
       ELSE RequestStep(s, [NoRequest EXCEPT
                              !.pc = "validated",
                              !.row = Some(AccountRow(data.username,
                                                      normalize_email(data.email),
                                                      data.password))])

\* UserRegistrationView.register, serializer.save(): create_user INSERTs the
\* row, the email normalized, under the UNIQUE constraints of the table as
\* it is now.
ApiRegisterSave(s) ==
    /\ writer[s].pc = "validated"
    /\ LET row == Val(writer[s].row)
           ids == AccountIds \ HeldAccounts
       IN IF users_constraint_violated(db.users, row, {})
          THEN Answer(s, db, Response(Anonymous, 500, "IntegrityError", None, None))
          ELSE /\ FreeIds(db.users, ids) # {}
               /\ db' = [db EXCEPT !.users = Put(@, NewId(@, ids), row)]
               /\ writer' = [writer EXCEPT ![s].pc = "created",
                                           ![s].user = Some(NewId(db.users, ids))]
               /\ UNCHANGED <<balances, outcome, accountVars, managedVars, rsaVars>>

\* UserRegistrationView.register, Token.objects.get_or_create(user=user) and
\* the response.  The INSERT for an account deleted since it was created
\* violates the FOREIGN KEY of Token.user.
ApiRegisterToken(s) ==
    /\ writer[s].pc = "created"
    /\ LET u == Val(writer[s].user)
       IN IF u \notin DOMAIN db.users
          THEN Answer(s, db, Response(Anonymous, 500, "IntegrityError", None, None))
          ELSE /\ TokensOf(db, u) = {} => db.keys_generated < MaxKeys
               /\ LET d == TokenGetOrCreate(db, u)
                  IN Answer(s, d, Response(Anonymous, 201, "User registered successfully",
                                           writer[s].row, Some(TokenKey(d, u))))

\* UserLogoutView.logout: request.user.auth_token.delete(); without a token
\* the exception is answered 400.
ApiLogout(u) ==
    /\ Authenticated(u)
    /\ IF TokensOf(db, u) = {}
       THEN Respond2(db, Response(u, 400, "User has no auth_token.", None, None))
       ELSE Respond2(TokenDelete(db, u), Response(u, 200, "Logout successful", None, None))

\* UserAdmin's change view saving is_active.
AdminSetActive(u, flag) ==
    /\ u \in DOMAIN db.users
    /\ db.users[u].is_active # flag
    /\ Respond2([db EXCEPT !.users = Put(@, u, [@[u] EXCEPT !.is_active = flag])],
                NoResponse)

LoginData ==
    [username : {None, Some("ann")},
     email : {None, Some(EmptyEmail), Some(BobEmail), Some(EveEmail)},
     password : {Some("secret"), Some("changed")}]

RegistrationRequests ==
    {[username |-> "ann", email |-> AnnEmail, password |-> "secret",
      password_confirm |-> "secret"],
     [username |-> "bob", email |-> [local |-> "b", domain |-> "X.COM"],
      password |-> "secret", password_confirm |-> "secret"],
     [username |-> "bob", email |-> AnnEmail, password |-> "secret",
      password_confirm |-> "secret"]}

ClientIps == {"10.0.0.1"}

FormLoginData == [username : {Some("ann"), Some("bob")}, password : {Some("secret")}]

InitTokens ==
    /\ db = EmptyDb
    /\ balances = [t \in BalanceTables |-> EmptyBag]
    /\ outcome = NoResponse
    /\ writer = [s \in {"s1"} |-> NoRequest]
    /\ NoAccount /\ NoManaged /\ NoRSA

NextTokens ==
    \/ \E data \in RegistrationRequests : ApiRegister("s1", data)
    \/ ApiRegisterSave("s1")
    \/ ApiRegisterToken("s1")
    \/ \E data \in LoginData, ip \in ClientIps : ApiLogin("s1", data, ip)
    \/ ApiLoginToken("s1")
    \/ ApiLoginSave("s1")
    \/ \E data \in FormLoginData, ip \in ClientIps : FormLogin("s1", data, ip)
    \/ FormLoginSave("s1")
    \/ \E u \in AccountIds : ApiDestroy(u, u)
    \/ \E u \in AccountIds : ApiLogout(u)
    \/ \E u \in AccountIds, data \in ApiPasswordData : ApiChangePassword(u, data)
    \/ \E u \in AccountIds, data \in FormPasswordData : FormChangePasswordBy(u, data)
    \/ \E u \in AccountIds, flag \in BOOLEAN : AdminSetActive(u, flag)

SpecTokens == InitTokens /\ [][NextTokens]_vars

\* SpecLogins: two registered accounts, one of which holds a token, log in
\* through the API and the login page, log out and delete themselves, and
\* the admin activates and deactivates them; the other requests come
\* between the statements of a login.
InitLogins ==
    /\ db = [EmptyDb EXCEPT
               !.users = Put(Put(<<>>, 1, AccountRow("ann", AnnEmail, "secret")),
                             2, AccountRow("bob", BobEmail, "secret")),
               !.authtoken_token = {[key |-> 1, user |-> 1]},
               !.keys_generated = 1]
    /\ balances = [t \in BalanceTables |-> EmptyBag]
    /\ outcome = NoResponse
    /\ writer = [s \in {"s1"} |-> NoRequest]
    /\ NoAccount /\ NoManaged /\ NoRSA

NextLogins ==
    \/ \E data \in LoginData, ip \in ClientIps : ApiLogin("s1", data, ip)
    \/ ApiLoginToken("s1")
    \/ ApiLoginSave("s1")
    \/ \E data \in FormLoginData, ip \in ClientIps : FormLogin("s1", data, ip)
    \/ FormLoginSave("s1")
    \/ \E u \in AccountIds : ApiDestroy(u, u)
    \/ \E u \in AccountIds : ApiLogout(u)
    \/ \E u \in AccountIds, flag \in BOOLEAN : AdminSetActive(u, flag)

SpecLogins == InitLogins /\ [][NextLogins]_vars

\* SpecRegistrations: two sessions register through the API, a statement
\* of one between the statements of the other, and accounts delete
\* themselves.
InitRegistrations ==
    /\ db = EmptyDb
    /\ balances = [t \in BalanceTables |-> EmptyBag]
    /\ outcome = NoResponse
    /\ writer = [s \in {"s1", "s2"} |-> NoRequest]
    /\ NoAccount /\ NoManaged /\ NoRSA

NextRegistrations ==
    \/ \E s \in {"s1", "s2"}, data \in RegistrationRequests : ApiRegister(s, data)
    \/ \E s \in {"s1", "s2"} : ApiRegisterSave(s)
    \/ \E s \in {"s1", "s2"} : ApiRegisterToken(s)
    \/ \E u \in AccountIds : ApiDestroy(u, u)

SpecRegistrations == InitRegistrations /\ [][NextRegistrations]_vars

-----------------------------------------------------------------------------
(* SpecPictures: the account's picture is deleted through the API and      *)
(* through the page, uploaded again, and the profile page is viewed.       *)

\* The mutant of PictureCleared: the bio is cleared with the picture.
PictureCleared_with_bio(row) == [row EXCEPT !.profile_picture = None, !.bio = ""]

\* user.profile_picture.delete(); user.profile_picture = None; user.save()
PictureCleared(row) == [row EXCEPT !.profile_picture = None]

\* The answers of UserProfileViewSet.delete_picture.
ApiPictureDeleted == Response(1, 200, "Profile picture deleted successfully", None, None)
ApiPictureMissing == Response(1, 400, "No profile picture to delete", None, None)

\* The answers of delete_profile_picture_view: the message and the redirect.
FormPictureDeleted == Response(1, 302, "Profile picture deleted successfully!", None, None)
FormPictureMissing == Response(1, 302, "No profile picture to delete.", None, None)

\* UserProfileViewSet.delete_picture: the picture is deleted if there is one.
ApiDeletePictureRequest ==
    /\ IF TruthyOpt(user.profile_picture)
       THEN user' = PictureCleared(user) /\ outcome' = ApiPictureDeleted
       ELSE user' = user /\ outcome' = ApiPictureMissing
    /\ UNCHANGED <<now, premium_shown, profile_completion, balances, writer>>
    /\ UNCHANGED <<managedVars, rsaVars, catalogVars>>

\* delete_profile_picture_view on a POST.
FormDeletePictureRequest ==
    /\ IF TruthyOpt(user.profile_picture)
       THEN user' = PictureCleared(user) /\ outcome' = FormPictureDeleted
       ELSE user' = user /\ outcome' = FormPictureMissing
    /\ UNCHANGED <<now, premium_shown, profile_completion, balances, writer>>
    /\ UNCHANGED <<managedVars, rsaVars, catalogVars>>

InitPictures ==
    /\ now = 0
    /\ user \in {u \in Profiles : u.currency = "USD" /\ u.timezone = "UTC"}
    /\ premium_shown = None
    /\ profile_completion = None
    /\ balances = [t \in BalanceTables |-> EmptyBag]
    /\ outcome = NoResponse
    /\ writer = <<>>
    /\ NoManaged /\ NoRSA /\ NoCatalog

NextPictures ==
    \/ ApiDeletePictureRequest
    \/ FormDeletePictureRequest
    \/ \E file \in {Val(x) : x \in Pictures \ {None}} : ApiUploadPicture(file)
    \/ ApiUploadPictureCommit
    \/ ViewProfile

SpecPictures == InitPictures /\ [][NextPictures]_vars

-----------------------------------------------------------------------------
(* Properties of the account.                                              *)

\* The premium rule written out: the flag is set and the expiry is unset or
\* later than t.
PremiumRule(u, t) ==
    u.is_premium /\ (u.premium_expires_at = None \/ t < Val(u.premium_expires_at))

\* C1: for every account and every current time, is_premium_active is true iff
\* is_premium is set and premium_expires_at is unset or later than the current
\* time; it is false whenever the flag is unset, and true whenever the flag is
\* set and the expiry unset, whatever the time.
C1_PremiumActiveRule ==
    \A t \in Times :
        /\ is_premium_active(user, t) <=> PremiumRule(user, t)
        /\ ~user.is_premium => ~is_premium_active(user, t)
        /\ user.is_premium /\ user.premium_expires_at = None => is_premium_active(user, t)

\* An account read at the very instant its premium expires, and shown inactive.
C1_Witness ==
    /\ user.is_premium
    /\ user.premium_expires_at = Some(now)
    /\ premium_shown = Some([at |-> now, value |-> FALSE])

\* C2: with is_premium set and the expiry T, is_premium_active is true at every
\* instant before T and false at T and after; every read gives the value for
\* the clock at that read; and, while the account is not written, an inactive
\* account never becomes active again.
C2_FlipsAtExpiry ==
    /\ [](user.is_premium /\ user.premium_expires_at # None
            => (is_premium_active(user, now) <=> now < Val(user.premium_expires_at)))
    /\ [][premium_shown' # premium_shown
            => premium_shown' = Some([at |-> now', value |-> PremiumRule(user', now')])]_vars
    /\ [][user' = user /\ ~is_premium_active(user, now)
            => ~is_premium_active(user', now')]_vars

\* A premium account read after its expiry has passed, and shown inactive.
C2_Witness ==
    /\ user.is_premium
    /\ user.premium_expires_at # None
    /\ Val(user.premium_expires_at) < now
    /\ premium_shown = Some([at |-> now, value |-> FALSE])

\* The seven scored fields, and whether one is filled in.
ScoredFields ==
    {"first_name", "last_name", "email", "phone_number", "profile_picture",
     "date_of_birth", "bio"}

NonEmpty(u, f) ==
    IF f \in {"first_name", "last_name", "email", "bio"}
    THEN u[f] # ""
    ELSE u[f] # None /\ Val(u[f]) # ""

FilledCount(u) == Cardinality({f \in ScoredFields : NonEmpty(u, f)})

\* C6: the completion score is the number of non-empty fields among the seven,
\* divided by 7, times 100, rounded to two places: it is within half a
\* hundredth of k / 7 * 100, lies in [0, 100], and is 0.00 for 0 of 7, 42.86
\* for 3 of 7 and 100.00 for 7 of 7.
C6_CompletionScore ==
    LET k == FilledCount(user)
        s == calculate_profile_completion(user)
    IN /\ s \in 0..10000
       /\ 2 * Abs(7 * s - 10000 * k) <= 7
       /\ k = 0 => s = 0
       /\ k = 3 => s = 4286
       /\ k = 7 => s = 10000
       /\ profile_completion # None => Val(profile_completion) \in 0..10000

\* The profile page of an account with three of the seven fields filled.
C6_Witness ==
    /\ FilledCount(user) = 3
    /\ profile_completion = Some(4286)

\* C7: a step that fills one empty scored field and leaves every other field
\* as it was never lowers the completion score.
C7_FillingNeverLowers ==
    [][\A f \in ScoredFields :
          (/\ ~NonEmpty(user, f)
           /\ NonEmpty(user', f)
           /\ \A g \in DOMAIN user \ {f} : user'[g] = user[g])
          => calculate_profile_completion(user') >= calculate_profile_completion(user)]_vars

\* A field was filled since the profile page was last shown: the score now is
\* above the one shown.
C7_Witness ==
    /\ profile_completion # None
    /\ Val(profile_completion) < calculate_profile_completion(user)


-----------------------------------------------------------------------------
(* Properties of the derived balance fields.                               *)

\* The amount of a two-place Decimal, in cents.
ToCents(d) == (IF d.sign = 1 THEN -1 ELSE 1) * IntOf(d.digits)

Zeros(n) == [i \in 1..n |-> 0]
PadLeft(ds, n) == Zeros(n - Len(ds)) \o ds

\* x - c * m for two digit strings of one length, most significant digit
\* first; a difference beyond m + 1 in size only grows, and is held there.
RECURSIVE ScaledDifference(_, _, _, _, _)
ScaledDifference(x, c, m, i, acc) ==
    IF i > Len(x) THEN acc
    ELSE LET v == 10 * acc + x[i] - c[i] * m
         IN ScaledDifference(x, c, m, i + 1,
                             IF v > m + 1 THEN m + 1
                             ELSE IF v < -(m + 1) THEN -(m + 1) ELSE v)

\* The Decimal p is n / m * 100 (n and m amounts in cents, m > 0): exactly, or
\* with all Prec digits used and off by no more than half a unit of the last.
\* Multiplied out: p's coefficient times m against n * 100 scaled to p's
\* exponent.
IsPercentageOf(p, n, m) ==
    LET x == Digits(Abs(n) * 100) \o Zeros(-p.exp)
        l == Max(Len(x), Len(p.digits))
        diff == ScaledDifference(PadLeft(x, l), PadLeft(p.digits, l), m, 1, 0)
    IN /\ p.exp <= 0
       /\ Len(p.digits) <= Prec
       /\ n # 0 => p.sign = (IF n < 0 THEN 1 ELSE 0)
       /\ \/ diff = 0
          \/ Len(p.digits) = Prec /\ 2 * Abs(diff) <= m

ReturnCentsOf(b) ==
    b.unrealized_gain_loss + b.realized_gain_loss + b.total_dividends_received

\* C3: total_return_percentage is (total_return / total_invested) * 100 when
\* total_invested > 0 and exactly 0.00 when it is zero or negative, whatever
\* the gain, loss and dividend fields hold; no evaluation raises.
C3_ReturnPercentage ==
    LET p == total_return_percentage(mf_balance)
        shown == mf_display.total_return_percentage
    IN /\ ~Raised(p)
       /\ mf_balance.total_invested > 0
            => IsPercentageOf(p, ReturnCentsOf(mf_balance), mf_balance.total_invested)
       /\ mf_balance.total_invested <= 0
            => p = [sign |-> 0, digits |-> <<0>>, exp |-> -2]
       /\ shown # None => Val(shown) = p

\* A row with nothing invested and a gain, shown with 0.00 percent.
C3_Witness ==
    /\ mf_balance.total_invested = 0
    /\ ReturnCentsOf(mf_balance) # 0
    /\ mf_display.total_return_percentage = Some([sign |-> 0, digits |-> <<0>>, exp |-> -2])

\* The documented example: 150.00, -20.00 and 10.00 on 1000.00 invested.
ExampleManagedBalance ==
    [unrealized_gain_loss |-> 15000, realized_gain_loss |-> -2000,
     total_dividends_received |-> 1000, total_invested |-> 100000]

\* C4: total_return is unrealized_gain_loss + realized_gain_loss +
\* total_dividends_received, exact to the cent, negative components included;
\* the example row gives 140.00 and 14.00 percent.
C4_TotalReturnSum ==
    LET t == total_return(mf_balance)
    IN /\ t.exp = -2
       /\ ToCents(t) = ReturnCentsOf(mf_balance)
       /\ mf_display.total_return # None => Val(mf_display.total_return) = t
       /\ mf_balance = ExampleManagedBalance
            => /\ t = [sign |-> 0, digits |-> <<1, 4, 0, 0, 0>>, exp |-> -2]
               /\ total_return_percentage(mf_balance)
                    = [sign |-> 0, digits |-> <<1, 4, 0, 0>>, exp |-> -2]

\* The example row with both derived fields read.
C4_Witness ==
    /\ mf_balance = ExampleManagedBalance
    /\ mf_display = [total_return |-> Some(FromCents(14000)),
                     total_return_percentage |-> Some(FromCents(1400))]

\* C5: total_contributions is the sum of the employee, employer and voluntary
\* totals, exact to the cent, and of nothing else: 500.00 + 600.00 + 100.00 is
\* 1200.00, and a value read stays the sum when another column is written.
C5_TotalContributions ==
    LET t == total_contributions(rsa_balance)
        sum == rsa_balance.total_employee_contributions
                 + rsa_balance.total_employer_contributions
                 + rsa_balance.total_voluntary_contributions
    IN /\ t.exp = -2
       /\ ToCents(t) = sum
       /\ rsa_display # None => Val(rsa_display).exp = -2 /\ ToCents(Val(rsa_display)) = sum
       /\ sum = 120000 => t = [sign |-> 0, digits |-> <<1, 2, 0, 0, 0, 0>>, exp |-> -2]

\* The example row, its total read.
C5_Witness ==
    /\ rsa_balance.total_employee_contributions = 50000
    /\ rsa_balance.total_employer_contributions = 60000
    /\ rsa_balance.total_voluntary_contributions = 10000
    /\ rsa_display = Some(FromCents(120000))

-----------------------------------------------------------------------------
(* Properties of the balance tables.                                       *)

\* The number of rows of table t recorded for fund f on date d.
SnapshotsOf(t, f, d) ==
    LET at == {x \in BagToSet(balances[t]) : x.fund = f /\ x.balance_date = d}
    IN IF at = {} THEN 0
       ELSE BagCardinality([x \in at |-> CopiesIn(x, balances[t])])

\* Some row of bag b, the row `old` set aside, is recorded for r's fund on
\* r's date.
SharesFundDate(b, r, old) ==
    \E x \in BagToSet(b) :
        /\ x.fund = r.fund
        /\ x.balance_date = r.balance_date
        /\ (x = old => CopiesIn(x, b) > 1)

\* What the specification calls DuplicateSnapshot: the database's refusal and
\* the form's.
DuplicateSnapshot == {"IntegrityError", "ValidationError"}

\* C8: in every reachable state, after any sequence of inserts, updates and
\* deletes, each balance table holds at most one row per (fund, date).
C8_OneSnapshotPerFundDate ==
    \A t \in BalanceTables, f \in Funds, d \in Dates : SnapshotsOf(t, f, d) <= 1

\* C8's case happens: two rows of one fund on different dates and a rejected
\* write behind them.
C8_Witness ==
    \E t \in BalanceTables, f \in Funds :
        /\ \A d \in 1..2 : SnapshotsOf(t, f, d) = 1
        /\ outcome \in DuplicateSnapshot

\* The session's write is refused as a duplicate, by its form or by the
\* database, and the tables are as they were.
RefusedDuplicate(w) ==
    /\ balances' = balances
    /\ writer'[w].pc = "done"
    /\ writer'[w].result \in DuplicateSnapshot

\* C9: an insert or an update whose row would share its (fund, date) with
\* another row of the table fails with the duplicate-snapshot error and
\* leaves every table as it was: a write of the ORM, a form refused by its
\* validation, and a validated form refused by the database.  (Under
\* SpecForms.)
C9_DuplicateWriteFails ==
    /\ [][(\A w \in DOMAIN writer : writer'[w].pc = writer[w].pc) =>
             \/ balances' = balances /\ outcome' \in DuplicateSnapshot
             \/ \A t \in BalanceTables : \A x \in BagToSet(balances[t]), v \in MarketValues :
                   LET r == [x EXCEPT !.market_value = v]
                   IN /\ ~CreateBalance(t, r)
                      /\ \A old \in BagToSet(balances[t]) :
                           ~(SharesFundDate(balances[t], r, old) /\ SaveBalance(t, old, r))
         ]_vars
    /\ [][\A w \in DOMAIN writer :
             (writer[w].pc = "idle" /\ writer'[w].pc # "idle") =>
                LET t == writer'[w].table
                    r == Val(writer'[w].row)
                IN \/ RefusedDuplicate(w)
                   \/ /\ ~(SharesFundDate(balances[t], r, None) /\ SubmitAdd(w, t, r))
                      /\ \A old \in BagToSet(balances[t]) :
                           ~(SharesFundDate(balances[t], r, old) /\ SubmitChange(w, t, old, r))
         ]_vars
    /\ [][\A w \in DOMAIN writer :
             (/\ writer[w].pc = "validated"
              /\ writer'[w].pc = "done"
              /\ SharesFundDate(balances[writer[w].table], Val(writer[w].row),
                                IF writer[w].old = None THEN None ELSE Val(writer[w].old))
              /\ CommitAdd(w) \/ CommitChange(w))
                => RefusedDuplicate(w)
         ]_vars
    /\ [][\A w \in DOMAIN writer :
             (writer[w].pc = "done" /\ AnswerAdmin(w)) => outcome' = writer[w].result]_vars

\* C9's case happens: a write was refused by the database while the table
\* holds rows on two dates, so that inserts and updates alike can collide.
C9_Witness ==
    /\ \E w \in DOMAIN writer : writer[w].pc = "done" /\ writer[w].result = "IntegrityError"
    /\ \E t \in BalanceTables, f \in Funds :
          SnapshotsOf(t, f, 1) = 1 /\ SnapshotsOf(t, f, 2) = 1

\* The two writers are through, both with the same table, fund and date.
BothDoneOnSamePair ==
    /\ \A w \in Writers : writer[w].pc = "done"
    /\ writer["w1"].table = writer["w2"].table
    /\ Val(writer["w1"].row).fund = Val(writer["w2"].row).fund
    /\ Val(writer["w1"].row).balance_date = Val(writer["w2"].row).balance_date

\* C10: under every interleaving of two writers inserting for the same
\* (fund, date), at most one insert succeeds and the other fails, and no
\* state holds two rows for the pair.
C10_OneConcurrentInsertWins ==
    /\ \A t \in BalanceTables, f \in Funds, d \in Dates : SnapshotsOf(t, f, d) < 2
    /\ BothDoneOnSamePair =>
          /\ Cardinality({w \in Writers : writer[w].result = "saved"}) = 1
          /\ Cardinality({w \in Writers : writer[w].result \in DuplicateSnapshot}) = 1
          /\ SnapshotsOf(writer["w1"].table, Val(writer["w1"].row).fund,
                         Val(writer["w1"].row).balance_date) = 1

\* C10's case happens: both writers passed validation before either wrote,
\* and the database refused the second INSERT.
C10_Witness ==
    /\ BothDoneOnSamePair
    /\ \E w \in Writers : writer[w].result = "saved"
    /\ \E w \in Writers : writer[w].result = "IntegrityError"


-----------------------------------------------------------------------------
(* Properties of the performance table.                                    *)

\* The number of FundPerformance rows recorded with r's four values.
PerformanceRowsLike(r) ==
    LET at == {x \in BagToSet(db.fund_performance) :
                  /\ x.fund = r.fund
                  /\ x.period_type = r.period_type
                  /\ x.period_start_date = r.period_start_date
                  /\ x.period_end_date = r.period_end_date}
    IN IF at = {} THEN 0
       ELSE BagCardinality([x \in at |-> CopiesIn(x, db.fund_performance)])

\* Writing r, with the row `old` set aside on an update, would make a second
\* row with r's four values.  A row being its four values, only the rows the
\* table holds can be repeated.
WouldRepeatPeriod(r, old) ==
    PerformanceRowsLike(r) > (IF old = Some(r) THEN 1 ELSE 0)

\* The session's write is refused as a repeated period, by its form or by
\* the database, and the tables are as they were.
RefusedRepeat(w) ==
    /\ db' = db
    /\ writer'[w].pc = "done"
    /\ writer'[w].result \in DuplicateSnapshot

\* C11: in every reachable state there is at most one FundPerformance row per
\* (fund, period type, period start date, period end date), and a write that
\* would make a second such row fails and leaves the table as it was.
C11_OnePerformancePerPeriod ==
    /\ [](\A r \in PerformanceForms : PerformanceRowsLike(r) <= 1)
    /\ [][(\A w \in DOMAIN writer : writer'[w].pc = writer[w].pc) =>
             \/ db' = db /\ outcome' \in DuplicateSnapshot
             \/ \A r \in BagToSet(db.fund_performance) :
                   /\ ~CreatePerformance(r)
                   /\ \A old \in BagToSet(db.fund_performance) :
                        ~(WouldRepeatPeriod(r, Some(old)) /\ SavePerformance(old, r))
         ]_vars
    /\ [][\A w \in DOMAIN writer :
             (writer[w].pc = "idle" /\ writer'[w].pc # "idle") =>
                LET r == Val(writer'[w].row)
                IN \/ RefusedRepeat(w)
                   \/ /\ ~(WouldRepeatPeriod(r, None) /\ SubmitAddPerformance(w, r))
                      /\ \A old \in BagToSet(db.fund_performance) :
                           ~(WouldRepeatPeriod(r, Some(old))
                               /\ SubmitChangePerformance(w, old, r))
         ]_vars
    /\ [][\A w \in DOMAIN writer :
             (/\ writer[w].pc = "validated"
              /\ writer'[w].pc = "done"
              /\ WouldRepeatPeriod(Val(writer[w].row), writer[w].old)
              /\ CommitAddPerformance(w) \/ CommitChangePerformance(w))
                => RefusedRepeat(w)
         ]_vars

\* C11's case happens: two rows that differ in the period start date alone
\* are stored, and a write repeating a stored period has just been refused.
C11_Witness ==
    /\ outcome \in DuplicateSnapshot
    /\ \E x, y \in BagToSet(db.fund_performance) :
          /\ x.fund = y.fund
          /\ x.period_type = y.period_type
          /\ x.period_end_date = y.period_end_date
          /\ x.period_start_date # y.period_start_date

-----------------------------------------------------------------------------
(* Properties of the upload jobs.                                          *)

\* The moves the specification gives a job's status.
StatusMoves ==
    {<<"PENDING", "PROCESSING">>, <<"PROCESSING", "COMPLETED">>,
     <<"PROCESSING", "FAILED">>}

\* C12: every FundDataUpload job starts in status pending, and in every step
\* the status of a job stays as it is or moves pending -> processing ->
\* completed or failed; completed and failed are final, and no step, an admin
\* edit included, moves a job backwards.
C12_StatusOneDirectional ==
    [][ /\ \A id \in DOMAIN db.fund_data_uploads' \ DOMAIN db.fund_data_uploads :
              db.fund_data_uploads'[id].status = "PENDING"
        /\ \A id \in DOMAIN db.fund_data_uploads \cap DOMAIN db.fund_data_uploads' :
              \/ db.fund_data_uploads'[id].status = db.fund_data_uploads[id].status
              \/ <<db.fund_data_uploads[id].status,
                   db.fund_data_uploads'[id].status>> \in StatusMoves
      ]_vars

-----------------------------------------------------------------------------
(* Properties of the funds and the rows under them.                        *)

\* C13: in every reachable state every Fund has exactly one specialization
\* row, an RSAFund row or a ManagedFund row keyed by it, never both and never
\* neither.
C13_ExactlyOneSpecialization ==
    \A f \in DOMAIN db.funds : (f \in db.rsa_funds) # (f \in db.managed_funds)

\* Every specialization and every row under a specialization or a fund names
\* a parent that exists.
NoOrphans ==
    /\ db.rsa_funds \subseteq DOMAIN db.funds
    /\ db.managed_funds \subseteq DOMAIN db.funds
    /\ \A id \in DOMAIN db.rsa_contributions :
          db.rsa_contributions[id].rsa_fund \in db.rsa_funds
    /\ \A id \in DOMAIN db.managed_fund_transactions :
          db.managed_fund_transactions[id].managed_fund \in db.managed_funds
    /\ \A r \in BagToSet(balances["rsa_balances"]) : r.fund \in db.rsa_funds
    /\ \A r \in BagToSet(balances["managed_fund_balances"]) : r.fund \in db.managed_funds
    /\ \A r \in BagToSet(db.fund_performance) : r.fund \in DOMAIN db.funds

\* Some row of the seven tables under the funds belongs to fund f.
HasRowsOf(f) ==
    \/ f \in db.rsa_funds
    \/ f \in db.managed_funds
    \/ \E id \in DOMAIN db.rsa_contributions : db.rsa_contributions[id].rsa_fund = f
    \/ \E id \in DOMAIN db.managed_fund_transactions :
          db.managed_fund_transactions[id].managed_fund = f
    \/ \E t \in BalanceTables : \E r \in BagToSet(balances[t]) : r.fund = f
    \/ \E r \in BagToSet(db.fund_performance) : r.fund = f

\* C15: once a Fund is deleted, no specialization, contribution, transaction,
\* balance or performance row that belonged to it remains, and in every
\* reachable state every such row names an existing parent.
C15_CascadeLeavesNoOrphans ==
    /\ []NoOrphans
    /\ [][\A f \in Funds :
            (f \in DOMAIN db.funds /\ f \notin DOMAIN db.funds') => ~HasRowsOf(f)']_vars

\* C15's case happens: a delete took rows with it, and another fund still
\* has its specialization and a contribution under it.
C15_Witness ==
    /\ outcome = "cascaded"
    /\ \E f \in DOMAIN db.funds :
          /\ f \in db.rsa_funds
          /\ \E id \in DOMAIN db.rsa_contributions : db.rsa_contributions[id].rsa_fund = f
    /\ Cardinality(DOMAIN db.funds) < MaxFund

-----------------------------------------------------------------------------
(* Properties of ownership.                                                *)

\* The rows of a keyed table whose owner is not u, as they are.
RowsNotOf(f, u) == [k \in {x \in DOMAIN f : f[x].user # u} |-> f[k]]

\* C14: removing an account always succeeds and deletes every Fund,
\* FundManager and FundType row the account owns, while fund types without
\* an owner and the rows of other accounts survive, also when a fund of
\* another account names a fund type of the removed account.
C14_AccountRemovalCascades ==
    [][\A u \in Accounts : DeleteAccount(u) =>
          /\ u \notin db.accounts'
          /\ OwnedBy(db.funds', u) = {}
          /\ OwnedBy(db.fund_managers', u) = {}
          /\ OwnedBy(db.fund_types', Some(u)) = {}
          /\ RowsNotOf(db.fund_types', Some(u)) = RowsNotOf(db.fund_types, Some(u))
          /\ RowsNotOf(db.fund_managers', u) = RowsNotOf(db.fund_managers, u)
          /\ DOMAIN RowsNotOf(db.funds', u) = DOMAIN RowsNotOf(db.funds, u)
      ]_vars

\* C16: a Fund row, once created, is never physically deleted by an
\* operation of the code, which only soft-disables it by clearing is_active:
\* no step takes a Fund row out of the table, unless it removes the account
\* that owns the row (the cascade of Fund.user).
C16_FundRowsNeverDeleted ==
    [][\A f \in DOMAIN db.funds :
          f \notin DOMAIN db.funds' => db.funds[f].user \notin db.accounts'
      ]_vars

-----------------------------------------------------------------------------
(* Properties of the references of a Fund.                                 *)

\* The funds that name fund manager id.
ManagedBy(d, id) == {f \in DOMAIN d.funds : d.funds[f].fund_manager = Some(id)}

\* C29: deleting a FundType that a Fund still names is refused and changes
\* nothing; deleting a FundManager succeeds, keeps every Fund that named it
\* and clears fund_manager on exactly those funds; and in every reachable
\* state each Fund names an existing FundType and an existing FundManager or
\* none.  (Under SpecOwnership.)
C29_FundReferences ==
    /\ [][\A id \in FundTypeIds :
             (fund_type_protected(db, {id}) /\ DeleteFundType(id)) =>
                /\ db' = db
                /\ balances' = balances
                /\ outcome' = "ProtectedError"]_vars
    /\ [][\A id \in FundManagerIds :
             DeleteFundManager(id) =>
                /\ id \notin DOMAIN db.fund_managers'
                /\ outcome' = "deleted"
                /\ DOMAIN db.funds' = DOMAIN db.funds
                /\ \A f \in DOMAIN db.funds :
                      db.funds'[f] = IF f \in ManagedBy(db, id)
                                     THEN [db.funds[f] EXCEPT !.fund_manager = None]
                                     ELSE db.funds[f]
                /\ db.fund_types' = db.fund_types]_vars
    /\ [](\A f \in DOMAIN db.funds :
             /\ db.funds[f].fund_type \in DOMAIN db.fund_types
             /\ db.funds[f].fund_manager # None
                  => Val(db.funds[f].fund_manager) \in DOMAIN db.fund_managers)

\* C29's case happens: a deletion has just been refused as protected while
\* a fund names its fund type, and that fund is stored without a manager in
\* a table of fund managers left empty.
C29_Witness ==
    /\ outcome = "ProtectedError"
    /\ db.fund_managers = <<>>
    /\ \E f \in DOMAIN db.funds :
          /\ db.funds[f].fund_manager = None
          /\ db.funds[f].fund_type \in DOMAIN db.fund_types

-----------------------------------------------------------------------------
(* Properties of the contribution and transaction logs.                    *)

\* C17: the RSAContribution and ManagedFundTransaction logs are append-only:
\* while its parent specialization exists, a row of a log is neither changed
\* (amount, units, price, date, category) nor removed by any step.
C17_LogsAppendOnly ==
    [][ /\ \A id \in DOMAIN db.rsa_contributions :
              db.rsa_contributions[id].rsa_fund \in db.rsa_funds' =>
                 /\ id \in DOMAIN db.rsa_contributions'
                 /\ db.rsa_contributions'[id] = db.rsa_contributions[id]
        /\ \A id \in DOMAIN db.managed_fund_transactions :
              db.managed_fund_transactions[id].managed_fund \in db.managed_funds' =>
                 /\ id \in DOMAIN db.managed_fund_transactions'
                 /\ db.managed_fund_transactions'[id] = db.managed_fund_transactions[id]
      ]_vars

\* C18: a write of an RSAContribution whose amount is not positive is
\* rejected with a ValidationError and stores nothing, on every write path,
\* and every stored RSAContribution has an amount of at least 0.01.
C18_NonPositiveAmountRejected ==
    /\ [](\A id \in DOMAIN db.rsa_contributions : db.rsa_contributions[id].amount >= 1)
    /\ [][\A r \in LedgerContributions :
            ( /\ r.amount <= 0
              /\ \/ CreateContribution(r)
                 \/ AdminAddContribution("w1", r)
                 \/ \E id \in DOMAIN db.rsa_contributions :
                       SaveContribution(id, r) \/ AdminChangeContribution("w1", id, r) )
               => (db' = db /\ outcome' = "ValidationError")
        ]_vars
-----------------------------------------------------------------------------
(* Properties of the users table, checked under SpecAccounts.              *)

\* The request of session w, if written, would repeat the email or the
\* username of an account other than the one it edits.
WouldDuplicate(w) ==
    /\ writer[w].row # None
    /\ \E i \in DOMAIN db.users :
          /\ writer[w].id # Some(i)
          /\ \/ db.users[i].email = Val(writer[w].row).email
             \/ db.users[i].username = Val(writer[w].row).username

\* C19: in every state no two accounts have the same email and no two have
\* the same username, whatever API registrations, form registrations and
\* profile edits the two sessions interleave; a request whose data would
\* repeat another account's email or username ends in an error, never in
\* "saved", and the step that refuses it leaves the users table as it was.
C19_UniqueEmailAndUsername ==
    /\ [](\A i, j \in DOMAIN db.users :
             i # j => /\ db.users[i].email # db.users[j].email
                      /\ db.users[i].username # db.users[j].username)
    /\ [][\A w \in Writers :
             /\ (writer[w].pc = "validated" /\ WouldDuplicate(w) /\ CommitUser(w))
                   => /\ db'.users = db.users
                      /\ writer'[w].result = "IntegrityError"
             /\ (writer[w].pc # "done" /\ writer'[w].pc = "done"
                                        /\ writer'[w].result # "saved")
                   => db'.users = db.users]_vars

\* Two registrations with the same email were both validated before either
\* was written: one was saved, the other refused by the database, and the
\* table holds the one account.
C19_Witness ==
    /\ writer["w1"].result = "saved"
    /\ writer["w2"].result = "IntegrityError"
    /\ writer["w1"].id = None /\ writer["w2"].id = None
    /\ Val(writer["w1"].row).email = Val(writer["w2"].row).email
    /\ Val(writer["w1"].row).username # Val(writer["w2"].row).username
    /\ Cardinality(DOMAIN db.users) = 1

-----------------------------------------------------------------------------
(* Properties of the log and the snapshots, checked under SpecCascade.     *)

\* The step adds a row to the contribution log or to the transaction log.
LogRowAdded ==
    \/ Cardinality(DOMAIN db'.rsa_contributions) > Cardinality(DOMAIN db.rsa_contributions)
    \/ Cardinality(DOMAIN db'.managed_fund_transactions)
          > Cardinality(DOMAIN db.managed_fund_transactions)

\* C21: a step that adds an RSAContribution or a ManagedFundTransaction row
\* leaves the RSABalance, ManagedFundBalance and FundPerformance tables
\* exactly as they were: no snapshot row is created and none is modified.
C21_SnapshotsNotDerivedFromLog ==
    [][LogRowAdded => /\ balances' = balances
                      /\ db'.fund_performance = db.fund_performance]_vars

\* A fund has a balance snapshot and a contribution in its log.
C21_Witness ==
    /\ outcome = "saved"
    /\ \E f \in db.rsa_funds :
          /\ \E r \in BagToSet(balances["rsa_balances"]) : r.fund = f
          /\ \E id \in DOMAIN db.rsa_contributions : db.rsa_contributions[id].rsa_fund = f

\* The step stores nothing and reports the absent reference to the caller:
\* IntegrityError from the ORM, ValidationError from a form.
RefusedAsMissing ==
    /\ db' = db
    /\ balances' = balances
    /\ outcome' \in {"IntegrityError", "ValidationError"}

\* The rows that SpecCascade writes under fund f.
ContributionUnder(f) ==
    [rsa_fund |-> f, contribution_date |-> 1, contribution_type |-> "EMPLOYEE",
     amount |-> 1, units_purchased |-> 0, nav_per_unit |-> 0]
TransactionUnder(f) ==
    [managed_fund |-> f, transaction_date |-> 1, transaction_type |-> "PURCHASE",
     amount |-> 1, units |-> 0, price_per_unit |-> 0]
BalanceUnder(f) == [fund |-> f, balance_date |-> 1, market_value |-> 0]
PerformanceUnder(f) ==
    [fund |-> f, period_type |-> "MONTHLY", period_start_date |-> 1, period_end_date |-> 2]

\* C22: writing a contribution, a transaction, a balance or a performance row
\* whose specialization or Fund does not exist ends in an error reported to
\* the caller and stores nothing: every table is as it was before the write.
C22_MissingParentRefused ==
    [][/\ \A f \in Funds \ db.rsa_funds :
             /\ CreateContribution(ContributionUnder(f)) => RefusedAsMissing
             /\ CreateBalanceUnder("rsa_balances", BalanceUnder(f)) => RefusedAsMissing
       /\ \A f \in Funds \ db.managed_funds :
             /\ CreateTransaction(TransactionUnder(f)) => RefusedAsMissing
             /\ CreateBalanceUnder("managed_fund_balances", BalanceUnder(f))
                   => RefusedAsMissing
       /\ \A f \in Funds \ DOMAIN db.funds :
             CreatePerformanceUnder(PerformanceUnder(f)) => RefusedAsMissing]_vars

\* A write was refused while no balance and no performance row was stored,
\* so that the refusal is for an absent parent and not for a repeated
\* snapshot; a fund and a log row under another specialization exist.
C22_Witness ==
    /\ outcome = "IntegrityError"
    /\ RowCount = 0
    /\ db.fund_performance = EmptyBag
    /\ DOMAIN db.funds # {}
    /\ DOMAIN db.rsa_contributions # {}

-----------------------------------------------------------------------------
(* Properties of the privileged fields, checked under SpecPrivileges.      *)

Privileges(u) == [k \in PrivilegeFields |-> u[k]]

\* C23: no request of the account holder (registration, API create and
\* update, profile edit, picture upload and deletion, password change)
\* changes is_premium, premium_expires_at or is_email_verified, whatever the
\* request carries for them; a registration or a create request makes the
\* account with these at their defaults, so an account created by a request
\* is at no time premium-active.
C23_PrivilegesNotSelfGranted ==
    /\ [][/\ outcome' = outcome => Privileges(user') = Privileges(user)
          /\ outcome' \in {"registered", "created"}
                => Privileges(user') = Privileges(NewUser)]_vars
    /\ [](outcome \in {"registered", "created"} => ~is_premium_active(user, now))

\* An account created by a registration that asked for the premium flag has
\* since been updated and time has passed: it is not premium.
C23_Witness ==
    /\ outcome = "registered"
    /\ user.bio # ""
    /\ user.password = "changed"
    /\ user.profile_picture # None
    /\ now > 0
    /\ ~user.is_premium

-----------------------------------------------------------------------------
(* Properties of profile requests, checked under SpecRequests.             *)

\* The row and the token of every account other than q are after the step
\* what they were before it.
OtherAccountsKept(q) ==
    \A v \in DOMAIN db.users \ {q} :
       /\ v \in DOMAIN db'.users
       /\ db'.users[v] = db.users[v]
       /\ TokensOf(db', v) = TokensOf(db, v)

\* The fund types, fund managers and uploads that q does not own are after
\* the step what they were before it.
OtherRowsKept(q) ==
    /\ RowsNotOf(db'.fund_types, Some(q)) = RowsNotOf(db.fund_types, Some(q))
    /\ RowsNotOf(db'.fund_managers, q) = RowsNotOf(db.fund_managers, q)
    /\ RowsNotOf(db'.fund_data_uploads, q) = RowsNotOf(db.fund_data_uploads, q)

\* An account in the response of the step is the requester's, or, in the
\* 201 answer to a POST of a new account to api/profile/, the account the
\* step has inserted.  (A step answers when it leaves the requester holding
\* no request.)
AnsweredWithOwnAccount ==
    (/\ outcome'.user # None
     /\ outcome'.requester \in DOMAIN writer
     /\ writer'[outcome'.requester] = None) =>
       IF outcome'.status = 201
       THEN \E v \in DOMAIN db'.users \ DOMAIN db.users : Val(outcome'.user) = db'.users[v]
       ELSE Val(outcome'.user) = db'.users[outcome'.requester]

-----------------------------------------------------------------------------
(* Properties of tokens, passwords and login, checked under SpecTokens.    *)

TokenKeys(d) == {t.key : t \in d.authtoken_token}

\* The request is one the account's holder expects to succeed: the old
\* password is the stored one and the two new passwords agree.
ValidPasswordChange(u, data) ==
    /\ Authenticated(u)
    /\ data.old_password = db.users[u].password
    /\ data.new_password = data.new_password_confirm

\* C25: an account has at most one token; register and login obtain the
\* account's token, the existing one when there is one, and answer with the
\* key they obtained; an API
\* change_password with the right old password and agreeing new passwords
\* deletes the account's token and issues exactly one new one, and a key once
\* deleted is never a token's key again; API logout deletes the token.
C25_TokenLifecycle ==
    /\ [](\A u \in AccountIds : Cardinality(TokensOf(db, u)) <= 1)
    /\ [][\A s \in DOMAIN writer :
             LET u == Val(writer[s].user)
             IN /\ (writer[s].pc = "authenticated" /\ writer'[s].pc = "token")
                     => /\ TokensOf(db', u) # {}
                        /\ writer'[s].token = Some(TokenKey(db', u))
                        /\ TokensOf(db, u) # {} => TokensOf(db', u) = TokensOf(db, u)
                /\ (writer[s].pc = "token" /\ writer'[s].pc = "idle"
                      /\ outcome'.status = 200)
                     => outcome'.token = writer[s].token
                /\ (writer[s].pc = "created" /\ writer'[s].pc = "idle"
                      /\ outcome'.status = 201)
                     => /\ TokensOf(db', u) # {}
                        /\ outcome'.token = Some(TokenKey(db', u))
                        /\ TokensOf(db, u) # {} => TokensOf(db', u) = TokensOf(db, u)]_vars
    /\ [][\A k \in 1..db.keys_generated :
             k \notin TokenKeys(db) => k \notin TokenKeys(db')]_vars
    /\ [][\A u \in AccountIds :
             (outcome'.detail = "Logout successful" /\ ApiLogout(u))
                => TokensOf(db', u) = {}]_vars
    /\ [][\A u \in AccountIds : \A data \in ApiPasswordData :
             (ValidPasswordChange(u, data) /\ db.keys_generated < MaxKeys
                /\ ApiChangePassword(u, data))
                => /\ outcome'.status = 200
                   /\ Cardinality(TokensOf(db', u)) = 1
                   /\ TokensOf(db', u) \cap TokensOf(db, u) = {}
                   /\ outcome'.token = Some(TokenKey(db', u))]_vars

\* C26: an API change_password request whose old_password is not the stored
\* password, or whose new_password and new_password_confirm differ, is
\* answered 400 and leaves the account's password and its token as they were.
C26_FailedChangeKeepsCredentials ==
    [][\A u \in DOMAIN db.users : \A data \in ApiPasswordData :
          (/\ \/ data.old_password # db.users[u].password
              \/ data.new_password # data.new_password_confirm
           /\ ApiChangePassword(u, data))
             => /\ outcome'.status = 400
                /\ db'.users[u].password = db.users[u].password
                /\ TokensOf(db', u) = TokensOf(db, u)]_vars

\* A change_password request with differing new passwords was refused; the
\* account holds a token and the password it set before through the form.
C26_Witness ==
    /\ outcome.detail = "Password fields didn't match."
    /\ outcome.status = 400
    /\ outcome.requester \in DOMAIN db.users
    /\ TokensOf(db, outcome.requester) # {}
    /\ db.users[outcome.requester].password = "changed"

\* The accounts the request's identifier names: the email when a non-empty
\* one is sent, the username only when no email is.
Named(data) ==
    IF data.email # None /\ data.email # Some(EmptyEmail)
    THEN {i \in DOMAIN db.users : db.users[i].email = Val(data.email)}
    ELSE IF data.username # None
    THEN {i \in DOMAIN db.users : db.users[i].username = Val(data.username)}
    ELSE {}

\* UserLoginView.post goes on to the token for one of the accounts in
\* `matching`, and answers 401 'Invalid credentials' when there is none;
\* neither changes the tables.
LoginDecides(matching, ip) ==
    IF matching # {}
    THEN /\ writer'["s1"].pc = "authenticated"
         /\ Val(writer'["s1"].user) \in matching
         /\ writer'["s1"].ip = Some(ip)
         /\ db' = db
    ELSE /\ outcome'.status = 401
         /\ outcome'.detail = "Invalid credentials"
         /\ writer'["s1"].pc = "idle"
         /\ db' = db

\* A login that has authenticated an account obtains the account's token,
\* records the address and answers 200 with the token's key; when the
\* account has been deleted meanwhile it answers 500 and writes nothing.
LoginCompletes ==
    LET s == writer["s1"]
        u == Val(s.user)
    IN /\ (s.pc = "authenticated" /\ writer'["s1"] # s) =>
             IF u \in DOMAIN db.users
             THEN /\ writer'["s1"].pc = "token"
                  /\ TokensOf(db', u) # {}
                  /\ writer'["s1"].token = Some(TokenKey(db', u))
                  /\ db'.users = db.users
             ELSE outcome'.status = 500 /\ db' = db
       /\ (s.pc = "token" /\ writer'["s1"] # s) =>
             IF u \in DOMAIN db.users
             THEN /\ outcome'.status = 200
                  /\ outcome'.detail = "Login successful"
                  /\ outcome'.token = s.token
                  /\ db'.users[u].last_login_ip = s.ip
             ELSE outcome'.status = 500 /\ db' = db

\* C27 as claimed: login succeeds iff the identifier names an account whose
\* password matches.
C27_LoginByEmailThenUsername ==
    [][/\ writer["s1"].pc = "idle" =>
             \A data \in LoginData : \A ip \in ClientIps :
                ApiLogin("s1", data, ip)
                   => LoginDecides({i \in Named(data) :
                                       Some(db.users[i].password) = data.password}, ip)
       /\ LoginCompletes]_vars

\* C27, amended: login succeeds iff the identifier (the email when a
\* non-empty one is sent, else the username) names an active account whose
\* password matches, and the account is not deleted while the request is
\* handled; without such an account it answers 401, creates no token and
\* leaves last_login_ip as it was, and for an account deleted meanwhile it
\* answers 500 and writes nothing.
C27_LoginOfActiveAccount ==
    [][/\ writer["s1"].pc = "idle" =>
             \A data \in LoginData : \A ip \in ClientIps :
                ApiLogin("s1", data, ip)
                   => LoginDecides({i \in Named(data) :
                                       /\ Some(db.users[i].password) = data.password
                                       /\ db.users[i].is_active}, ip)
       /\ LoginCompletes]_vars

\* A login was refused while one account is deactivated and the other has
\* logged in before.
C27_Witness ==
    /\ outcome.detail = "Invalid credentials"
    /\ \E i, j \in DOMAIN db.users :
          /\ ~db.users[i].is_active
          /\ db.users[j].last_login_ip = Some("10.0.0.1")
          /\ TokensOf(db, j) # {}

-----------------------------------------------------------------------------
(* Properties of the profile picture.                                      *)

\* C28: after upload_profile_picture_view has handled a valid POST carrying
\* an image and reported 'Profile picture updated successfully!', the
\* account's profile_picture is non-empty and names the uploaded file as
\* stored, the file is in the storage and the picture stored before is not:
\* the state the API upload_picture action leaves.  (Under SpecRequests.)
C28_FormUploadStoresPicture ==
    [][\A u \in AccountIds : \A f \in Uploads \ {None} :
          (outcome'.detail = "Profile picture updated successfully!"
             /\ FormUploadPictureBy(u, f))
             => LET old == db.users[u].profile_picture
                    files == WithoutFile(db.media, old)
                IN /\ TruthyOpt(db'.users[u].profile_picture)
                   /\ \E name \in upload_to(files, Val(f)) :
                         /\ db'.users[u].profile_picture = Some(name)
                         /\ db'.media = files \cup {name}]_vars

DeletionRefused ==
    /\ outcome'.detail \in {"No profile picture to delete", "No profile picture to delete."}
    /\ outcome'.status \in {400, 302}
    /\ user' = user

DeletionDone ==
    /\ outcome'.detail \in {"Profile picture deleted successfully",
                            "Profile picture deleted successfully!"}
    /\ user'.profile_picture = None
    /\ ~TruthyOpt(user'.profile_picture)
    /\ \A k \in DOMAIN user \ {"profile_picture"} : user'[k] = user[k]
    /\ FilledCount(user') = FilledCount(user) - 1
    /\ calculate_profile_completion(user') = PyRound2(FilledCount(user) - 1, 7)

\* C30: deleting the picture of an account that has none (API delete_picture,
\* delete_profile_picture_view) reports an error or a warning and leaves the
\* account as it was; on an account with a picture it clears profile_picture
\* and nothing else, the completion score is then that of one field fewer,
\* and the account, now without a picture, is one on which a deletion is
\* refused.  (Under SpecPictures.)
C30_PictureDeletion ==
    [][(ApiDeletePictureRequest \/ FormDeletePictureRequest)
          => IF TruthyOpt(user.profile_picture) THEN DeletionDone ELSE DeletionRefused]_vars

\* A second deletion was refused on an account whose other six fields are
\* filled: the page shows six of seven.
C30_Witness ==
    /\ outcome.detail = "No profile picture to delete"
    /\ user.profile_picture = None
    /\ FilledCount(user) = 6
    /\ profile_completion = Some(8571)

=============================================================================
